---- MODULE Spec2Model ----
(***************************************************************************)
(* A model of the lox-vm pipeline: Scanner -> Compiler (Pratt parser) ->   *)
(* Chunk -> VM.  Source text is a sequence of one-character strings; the   *)
(* compiler pulls tokens from the scanner on demand and writes bytecode    *)
(* into a chunk, which VM::interpret then runs.                            *)
(*                                                                         *)
(* A Rust panic (unwrap on None/Err, todo!(), index out of range) is the   *)
(* outcome "panic": the process aborts, which is neither a success nor a   *)
(* reported failure of the call.                                           *)
(*                                                                         *)
(* Numbers: an f64 is an IEEE 754 double, every operation rounded to the    *)
(* nearest one, with signed zero, signed infinity and NaN.                 *)
(***************************************************************************)
EXTENDS Integers, Sequences, FiniteSets, TLC

(***************************************************************************)
(* Characters                                                              *)
(***************************************************************************)
Digits == {"0", "1", "2", "3", "4", "5", "6", "7", "8", "9"}

Letters ==
    {"a", "b", "c", "d", "e", "f", "g", "h", "i", "j", "k", "l", "m",
     "n", "o", "p", "q", "r", "s", "t", "u", "v", "w", "x", "y", "z",
     "A", "B", "C", "D", "E", "F", "G", "H", "I", "J", "K", "L", "M",
     "N", "O", "P", "Q", "R", "S", "T", "U", "V", "W", "X", "Y", "Z"}

is_ascii_digit(c) == c \in Digits

is_ascii_alphabetic(c) == c \in Letters

is_ascii_alphanumeric(c) == c \in Letters \cup Digits

DigitValue(c) ==
    CASE c = "0" -> 0 [] c = "1" -> 1 [] c = "2" -> 2 [] c = "3" -> 3
      [] c = "4" -> 4 [] c = "5" -> 5 [] c = "6" -> 6 [] c = "7" -> 7
      [] c = "8" -> 8 [] c = "9" -> 9

(***************************************************************************)
(* Natural numbers of any size: the sequence of their digits in base 2^15  *)
(* = 32768, the least significant first and the last one not 0; zero is    *)
(* <<>>.  Bits are counted from 1, the least significant first.            *)
(***************************************************************************)
RECURSIVE NatBig(_)
NatBig(n) == IF n = 0 THEN <<>> ELSE <<n % 32768>> \o NatBig(n \div 32768)

RECURSIVE Trim(_)
\* without the zeros above the highest digit
Trim(x) ==
    IF x = <<>> THEN x
    ELSE IF x[Len(x)] # 0 THEN x
    ELSE Trim(SubSeq(x, 1, Len(x) - 1))

DigitAt(x, i) == IF i >= 1 /\ i <= Len(x) THEN x[i] ELSE 0

Rest(x) == IF x = <<>> THEN x ELSE Tail(x)

\* 2^b for b in 0..15
SmallPow2(b) ==
    <<1, 2, 4, 8, 16, 32, 64, 128, 256, 512, 1024, 2048, 4096, 8192, 16384,
      32768>>[b + 1]

RECURSIVE AddCarry(_, _, _), AddDigit(_, _, _)
AddCarry(x, y, c) ==
    IF x = <<>> /\ y = <<>> THEN (IF c = 0 THEN <<>> ELSE <<c>>)
    ELSE IF y = <<>> /\ c = 0 THEN x
    ELSE IF x = <<>> /\ c = 0 THEN y
    ELSE AddDigit(x, y, DigitAt(x, 1) + DigitAt(y, 1) + c)

\* s: the sum of the lowest digits and the carry
AddDigit(x, y, s) ==
    <<s % 32768>> \o AddCarry(Rest(x), Rest(y), s \div 32768)

BigAdd(x, y) == AddCarry(x, y, 0)

RECURSIVE CmpFrom(_, _, _)
CmpFrom(x, y, i) ==
    IF i = 0 THEN 0
    ELSE IF x[i] > y[i] THEN 1
    ELSE IF x[i] < y[i] THEN -1
    ELSE CmpFrom(x, y, i - 1)

\* -1, 0 or 1 as x is less than, equal to or greater than y
BigCmp(x, y) ==
    IF Len(x) > Len(y) THEN 1
    ELSE IF Len(x) < Len(y) THEN -1
    ELSE CmpFrom(x, y, Len(x))

BigLess(x, y) == BigCmp(x, y) < 0

BigLessEq(x, y) == BigCmp(x, y) <= 0

RECURSIVE SubBorrow(_, _, _), SubDigit(_, _, _)
SubBorrow(x, y, b) ==
    IF x = <<>> THEN <<>>
    ELSE IF y = <<>> /\ b = 0 THEN x
    ELSE SubDigit(x, y, x[1] - DigitAt(y, 1) - b)

\* s: the difference of the lowest digits and the borrow
SubDigit(x, y, s) ==
    <<(s + 32768) % 32768>> \o SubBorrow(Tail(x), Rest(y), IF s < 0 THEN 1 ELSE 0)

\* x - y, for y <= x
BigSub(x, y) == Trim(SubBorrow(x, y, 0))

RECURSIVE MulSmall(_, _, _), MulDigit(_, _, _)
\* x * k + c, for 0 < k < 32768 and c < 32768
MulSmall(x, k, c) ==
    IF x = <<>> THEN (IF c = 0 THEN <<>> ELSE <<c>>)
    ELSE MulDigit(x, k, x[1] * k + c)

\* p: the product of the lowest digit and the carry
MulDigit(x, k, p) == <<p % 32768>> \o MulSmall(Tail(x), k, p \div 32768)

\* x * 32768^n
ShiftDigits(x, n) == IF x = <<>> THEN x ELSE [i \in 1..n |-> 0] \o x

RECURSIVE BigMul(_, _)
BigMul(x, y) ==
    IF x = <<>> \/ y = <<>> THEN <<>>
    ELSE BigAdd(IF x[1] = 0 THEN <<>> ELSE MulSmall(y, x[1], 0),
                ShiftDigits(BigMul(Tail(x), y), 1))

Times10(x) == MulSmall(x, 10, 0)

Square(x) == BigMul(x, x)

RECURSIVE BigPow10(_)
BigPow10(n) ==
    IF n = 0 THEN <<1>>
    ELSE IF n % 2 = 1 THEN Times10(BigPow10(n - 1))
    ELSE Square(BigPow10(n \div 2))

\* x * 2^k
Shl(x, k) == ShiftDigits(MulSmall(x, SmallPow2(k % 15), 0), k \div 15)

\* the digits of y moved down by b < 15 bits
ShrBits(y, b) ==
    Trim([i \in 1..Len(y) |->
             (y[i] \div SmallPow2(b))
             + (DigitAt(y, i + 1) % SmallPow2(b)) * SmallPow2(15 - b)])

\* x \div 2^k
Shr(x, k) ==
    IF k \div 15 >= Len(x) THEN <<>>
    ELSE ShrBits(SubSeq(x, k \div 15 + 1, Len(x)), k % 15)

\* 2^k
Pow2(k) == Shl(<<1>>, k)

\* the number of bits of 0 < n < 32768
SmallBitLen(n) == CHOOSE b \in 1..15 : SmallPow2(b - 1) <= n /\ n < SmallPow2(b)

\* the number of bits of x
BitLen(x) ==
    IF x = <<>> THEN 0 ELSE 15 * (Len(x) - 1) + SmallBitLen(x[Len(x)])

\* bit i of x
BitAt(x, i) ==
    IF i < 1 THEN 0
    ELSE (DigitAt(x, (i - 1) \div 15 + 1) \div SmallPow2((i - 1) % 15)) % 2

\* some bit of x below bit i is 1
AnyBelow(x, i) ==
    /\ i > 1
    /\ \/ \E l \in 1..((i - 1) \div 15) : DigitAt(x, l) # 0
       \/ DigitAt(x, (i - 1) \div 15 + 1) % SmallPow2((i - 1) % 15) # 0

\* the number of zero bits below the lowest 1 of 0 < n < 32768
SmallLowZeros(n) == CHOOSE b \in 0..14 : n % SmallPow2(b + 1) = SmallPow2(b)

\* the lowest digit of x # 0 that is not 0
LowDigit(x) ==
    CHOOSE l \in 1..Len(x) : x[l] # 0 /\ \A j \in 1..(l - 1) : x[j] = 0

LowZerosAt(x, l) == 15 * (l - 1) + SmallLowZeros(x[l])

\* the number of zero bits below the lowest 1 of x # 0
LowZeros(x) == LowZerosAt(x, LowDigit(x))

RECURSIVE FindDigit(_, _, _, _)
\* the largest t in lo..hi with d * t <= r, for d * lo <= r
FindDigit(r, d, lo, hi) ==
    IF lo = hi THEN lo
    ELSE IF BigLessEq(MulSmall(d, (lo + hi + 1) \div 2, 0), r)
    THEN FindDigit(r, d, (lo + hi + 1) \div 2, hi)
    ELSE FindDigit(r, d, lo, (lo + hi + 1) \div 2 - 1)

RECURSIVE DivFrom(_, _, _, _), DivDigit(_, _, _, _, _)
\* long division, digit j of the quotient and those below still to be found:
\* r < d * 32768^(j + 1)
DivFrom(r, d, j, q) ==
    IF j < 0 THEN [q |-> Trim(q), r |-> r]
    ELSE DivDigit(r, d, j, q, FindDigit(r, ShiftDigits(d, j), 0, 32767))

\* t: digit j of the quotient
DivDigit(r, d, j, q, t) ==
    DivFrom(IF t = 0 THEN r ELSE BigSub(r, MulSmall(ShiftDigits(d, j), t, 0)),
            d, j - 1, <<t>> \o q)

\* [q, r] with n = q * d + r and r < d, for d > 0
BigDivMod(n, d) == DivFrom(n, d, Len(n) - Len(d), <<>>)

(***************************************************************************)
(* f64: an IEEE 754 double.                                                *)
(*   k   : "fin" | "inf" | "nan"                                           *)
(*   neg : the sign bit (kept for zero and infinity)                       *)
(*   m, e : the magnitude m * 2^e, m odd (zero: m = <<>>, e = 0)           *)
(* A finite double has a magnitude below 2^1024 that is a multiple of      *)
(* 2^-1074 and has at most 53 significant bits; every operation rounds its *)
(* exact result to the nearest such value, ties to the even one.           *)
(***************************************************************************)
Abs(x) == IF x < 0 THEN -x ELSE x

Inf(neg) == [k |-> "inf", neg |-> neg, m |-> <<>>, e |-> 0]

NaN == [k |-> "nan", neg |-> FALSE, m |-> <<>>, e |-> 0]

Zero(neg) == [k |-> "fin", neg |-> neg, m |-> <<>>, e |-> 0]

\* z: the number of zero bits at the low end of m
Normal(neg, m, e, z) == [k |-> "fin", neg |-> neg, m |-> Shr(m, z), e |-> e + z]

\* the double of magnitude m * 2^e, which is known to be one
Fin(neg, m, e) == IF m = <<>> THEN Zero(neg) ELSE Normal(neg, m, e, LowZeros(m))

FromInt(i) == Fin(i < 0, NatBig(Abs(i)), 0)

IsZero(x) == x.k = "fin" /\ x.m = <<>>

Max(a, b) == IF a >= b THEN a ELSE b

\* cutting drop bits off q rounds up: the highest of them is 1, and either
\* something nonzero lies below it (sticky: below q itself) or the bit that
\* stays lowest is 1 (a tie goes to the even one)
RoundsUp(q, drop, sticky) ==
    /\ BitAt(q, drop) = 1
    /\ (sticky \/ AnyBelow(q, drop) \/ BitAt(q, drop + 1) = 1)

Bumped(x, up) == IF up THEN BigAdd(x, <<1>>) ELSE x

\* the quotient q, whose lowest bit counts 2^e, with drop bits cut off and
\* rounded to nearest
RoundedOff(neg, q, e, drop, sticky) ==
    Fin(neg, Bumped(Shr(q, drop), RoundsUp(q, drop, sticky)), e + drop)

\* above the largest double lies infinity
Overflowed(x) == IF BitLen(x.m) + x.e > 1024 THEN Inf(x.neg) ELSE x

\* all but 53 bits are cut off, and more where the lowest bit would fall
\* below 2^-1074
Drop(q, e) == Max(Max(BitLen(q) - 53, (0 - 1074) - e), 0)

\* the quotient dm of a division whose lowest bit counts 2^e, as a double
RoundQuotient(neg, dm, e) ==
    Overflowed(RoundedOff(neg, dm.q, e, Drop(dm.q, e), dm.r # <<>>))

\* the power of two a division of p by d is scaled by, for its quotient to
\* have 55 or 56 bits: p * 2^s / d lies between 2^54 and 2^56
Scale(p, d) == IF d = <<1>> THEN 0 ELSE 55 - (BitLen(p) - BitLen(d))

\* the quotient and remainder of p * 2^s by d
Quotient(p, d, s) ==
    IF d = <<1>> THEN [q |-> p, r |-> <<>>]
    ELSE BigDivMod(Shl(p, Max(s, 0)), Shl(d, Max(0 - s, 0)))

\* the double nearest to p * 2^e / d
RoundToF64(neg, p, e, d) ==
    IF p = <<>> THEN Zero(neg)
    ELSE RoundQuotient(neg, Quotient(p, d, Scale(p, d)), e - Scale(p, d))

\* f64::neg: flips the sign bit
f64_neg(x) == IF x.k = "nan" THEN NaN ELSE [x EXCEPT !.neg = ~x.neg]

\* the magnitude of x in units of 2^e, for e <= x.e
Aligned(x, e) == Shl(x.m, x.e - e)

\* the sign of the sum of two finite doubles, c comparing their magnitudes;
\* what cancels is +0
SumNeg(a, b, c) ==
    IF a.neg = b.neg THEN a.neg
    ELSE IF c = 0 THEN FALSE
    ELSE IF c > 0 THEN a.neg
    ELSE b.neg

\* the magnitude of the sum
SumMagnitude(a, b, ma, mb, c) ==
    IF a.neg = b.neg THEN BigAdd(ma, mb)
    ELSE IF c > 0 THEN BigSub(ma, mb)
    ELSE BigSub(mb, ma)

\* the sum of two finite doubles whose magnitudes in a common unit 2^e are
\* ma and mb; c is BigCmp(ma, mb)
AddAligned(a, b, ma, mb, e, c) ==
    RoundToF64(SumNeg(a, b, c), SumMagnitude(a, b, ma, mb, c), e, <<1>>)

\* the sum of two finite nonzero doubles, with e the lower of their exponents
AddAt(a, b, e) ==
    AddAligned(a, b, Aligned(a, e), Aligned(b, e), e,
               BigCmp(Aligned(a, e), Aligned(b, e)))

Min(a, b) == IF a <= b THEN a ELSE b

\* a is so far below b that b + a and b - a round to b: a is less than a
\* quarter of the lowest of the 53 bits of b
FarBelow(a, b) == BitLen(a.m) + a.e < BitLen(b.m) + b.e - 56

\* f64 + f64
f64_add(a, b) ==
    IF a.k = "nan" \/ b.k = "nan" THEN NaN
    ELSE IF a.k = "inf" /\ b.k = "inf"
         THEN (IF a.neg = b.neg THEN a ELSE NaN)
    ELSE IF a.k = "inf" THEN a
    ELSE IF b.k = "inf" THEN b
    ELSE IF IsZero(a) /\ IsZero(b) THEN Zero(a.neg /\ b.neg)
    ELSE IF IsZero(a) THEN b
    ELSE IF IsZero(b) THEN a
    ELSE IF FarBelow(b, a) THEN a
    ELSE IF FarBelow(a, b) THEN b
    ELSE AddAt(a, b, Min(a.e, b.e))

\* f64 - f64
f64_sub(a, b) == f64_add(a, f64_neg(b))

\* f64 * f64
f64_mul(a, b) ==
    IF a.k = "nan" \/ b.k = "nan" THEN NaN
    ELSE IF (a.k = "inf" /\ IsZero(b)) \/ (IsZero(a) /\ b.k = "inf") THEN NaN
    ELSE IF a.k = "inf" \/ b.k = "inf" THEN Inf(a.neg # b.neg)
    ELSE RoundToF64(a.neg # b.neg, BigMul(a.m, b.m), a.e + b.e, <<1>>)

\* f64 / f64: division by zero follows IEEE (infinity or NaN), never an error
f64_div(a, b) ==
    IF a.k = "nan" \/ b.k = "nan" THEN NaN
    ELSE IF a.k = "inf" /\ b.k = "inf" THEN NaN
    ELSE IF IsZero(a) /\ IsZero(b) THEN NaN
    ELSE IF a.k = "inf" THEN Inf(a.neg # b.neg)
    ELSE IF b.k = "inf" THEN Zero(a.neg # b.neg)
    ELSE IF IsZero(b) THEN Inf(a.neg # b.neg)
    ELSE RoundToF64(a.neg # b.neg, a.m, a.e - b.e, b.m)

\* f64 == f64: NaN differs from everything, +0 equals -0
f64_eq(a, b) ==
    IF a.k = "nan" \/ b.k = "nan" THEN FALSE
    ELSE IF IsZero(a) /\ IsZero(b) THEN TRUE
    ELSE a = b

\* the magnitude of the finite a is below that of the finite b
MagnitudeLess(a, b) ==
    IF IsZero(b) THEN FALSE
    ELSE IF IsZero(a) THEN TRUE
    ELSE IF BitLen(a.m) + a.e # BitLen(b.m) + b.e
    THEN BitLen(a.m) + a.e < BitLen(b.m) + b.e
    ELSE BigLess(Aligned(a, Min(a.e, b.e)), Aligned(b, Min(a.e, b.e)))

\* f64 < f64
f64_lt(a, b) ==
    IF a.k = "nan" \/ b.k = "nan" THEN FALSE
    ELSE IF f64_eq(a, b) THEN FALSE
    ELSE IF a.k = "inf" THEN a.neg
    ELSE IF b.k = "inf" THEN ~b.neg
    ELSE IF a.neg # b.neg THEN a.neg
    ELSE IF a.neg THEN MagnitudeLess(b, a)
    ELSE MagnitudeLess(a, b)

RECURSIVE DigitsNat(_)
\* the number a sequence of at most 4 decimal digits writes
DigitsNat(ds) ==
    IF ds = <<>> THEN 0
    ELSE 10 * DigitsNat(SubSeq(ds, 1, Len(ds) - 1)) + DigitValue(ds[Len(ds)])

RECURSIVE DigitsBig(_)
\* the number a sequence of decimal digits writes
DigitsBig(ds) ==
    IF Len(ds) <= 4 THEN NatBig(DigitsNat(ds))
    ELSE BigAdd(BigMul(DigitsBig(SubSeq(ds, 1, Len(ds) \div 2)),
                       BigPow10(Len(ds) - Len(ds) \div 2)),
                DigitsBig(SubSeq(ds, Len(ds) \div 2 + 1, Len(ds))))

\* the digits of a lexeme, its decimal point left out
WithoutPoint(lexeme) == SelectSeq(lexeme, LAMBDA ch : ch # ".")

\* how many digits follow the decimal point
FractionLen(lexeme) ==
    IF \E i \in 1..Len(lexeme) : lexeme[i] = "."
    THEN Len(lexeme) - (CHOOSE i \in 1..Len(lexeme) : lexeme[i] = ".")
    ELSE 0

\* str::parse::<f64> on a lexeme of the form d+ or d+.d+: the double nearest
\* to the decimal number written
parse_f64(lexeme) ==
    RoundToF64(FALSE, DigitsBig(WithoutPoint(lexeme)), 0,
               BigPow10(FractionLen(lexeme)))

(***************************************************************************)
(* Value: Nil | Bool(bool) | Number(f64) | Obj(String)                     *)
(* One record shape for all tags; the unused payload fields hold a fixed   *)
(* filler.                                                                 *)
(***************************************************************************)
Nil == [tag |-> "Nil", b |-> FALSE, n |-> NaN, s |-> <<>>]

Bool(x) == [tag |-> "Bool", b |-> x, n |-> NaN, s |-> <<>>]

Number(x) == [tag |-> "Number", b |-> FALSE, n |-> x, s |-> <<>>]

\* Value::from_string
from_string(str) == [tag |-> "Obj", b |-> FALSE, n |-> NaN, s |-> str]

\* truthiness as in C: the number zero counts as false too
is_falsey_with_zero(v) ==
    CASE v.tag = "Nil" -> TRUE
      [] v.tag = "Bool" -> ~v.b
      [] v.tag = "Number" -> v.n = FromInt(0)
      [] OTHER -> FALSE

\* Value::is_falsey
is_falsey(v) ==
    CASE v.tag = "Nil" -> TRUE
      [] v.tag = "Bool" -> ~v.b
      [] OTHER -> FALSE

\* impl Not for Value: `!value` on an owned value
Value_not(v) ==
    CASE v.tag = "Bool" -> Bool(~v.b)
      [] v.tag = "Nil" -> Bool(FALSE)
      [] OTHER -> Bool(TRUE)

\* impl Not for &Value: `!&value` on a reference
Value_not_ref(v) ==
    CASE v.tag = "Bool" -> Bool(~v.b)
      [] v.tag = "Nil" -> Bool(TRUE)
      [] OTHER -> Bool(FALSE)

\* #[derive(PartialEq)] on Value
Value_eq(a, b) ==
    IF a.tag # b.tag THEN FALSE
    ELSE CASE a.tag = "Nil" -> TRUE
           [] a.tag = "Bool" -> a.b = b.b
           [] a.tag = "Number" -> f64_eq(a.n, b.n)
           [] a.tag = "Obj" -> a.s = b.s

\* the printable ASCII characters in code order, from the space (32) to the
\* tilde (126); the backslash and the grave accent, which no text of the
\* model holds, are left out ("")
Ascii ==
    <<" ", "!", "\"", "#", "$", "%", "&", "'", "(", ")", "*", "+", ",", "-",
      ".", "/", "0", "1", "2", "3", "4", "5", "6", "7", "8", "9", ":", ";",
      "<", "=", ">", "?", "@", "A", "B", "C", "D", "E", "F", "G", "H", "I",
      "J", "K", "L", "M", "N", "O", "P", "Q", "R", "S", "T", "U", "V", "W",
      "X", "Y", "Z", "[", "", "]", "^", "_", "", "a", "b", "c", "d", "e",
      "f", "g", "h", "i", "j", "k", "l", "m", "n", "o", "p", "q", "r", "s",
      "t", "u", "v", "w", "x", "y", "z", "{", "|", "}", "~">>

\* the byte of a character: the newline or a printable ASCII character
CharCode(ch) ==
    IF ch = "\n" THEN 10 ELSE 31 + (CHOOSE i \in DOMAIN Ascii : Ascii[i] = ch)

RECURSIVE String_lt(_, _)
\* the order of String: byte by byte, a proper prefix first
String_lt(a, b) ==
    CASE b = <<>> -> FALSE
      [] a = <<>> -> TRUE
      [] a[1] # b[1] -> CharCode(a[1]) < CharCode(b[1])
      [] OTHER -> String_lt(Tail(a), Tail(b))

\* the position of a variant in the declaration of Value
Value_discriminant(v) ==
    CASE v.tag = "Nil" -> 0
      [] v.tag = "Bool" -> 1
      [] v.tag = "Number" -> 2
      [] v.tag = "Obj" -> 3

\* #[derive(PartialOrd)] on Value, `a < b`: the variants in the order of
\* their declaration, two values of one variant by their payloads
Value_lt(a, b) ==
    IF a.tag # b.tag THEN Value_discriminant(a) < Value_discriminant(b)
    ELSE CASE a.tag = "Nil" -> FALSE
           [] a.tag = "Bool" -> ~a.b /\ b.b
           [] a.tag = "Number" -> f64_lt(a.n, b.n)
           [] a.tag = "Obj" -> String_lt(a.s, b.s)

\* #[derive(PartialOrd)] on Value, `a > b`
Value_gt(a, b) == Value_lt(b, a)

Ok(v) == [ok |-> TRUE, v |-> v]

Err == [ok |-> FALSE, v |-> Nil]

\* addition that joins two strings with the right operand first
Value_add_right_first(a, b) ==
    IF a.tag = "Number" /\ b.tag = "Number" THEN Ok(Number(f64_add(a.n, b.n)))
    ELSE IF a.tag = "Obj" /\ b.tag = "Obj" THEN Ok(from_string(b.s \o a.s))
    ELSE Err

\* impl Add for Value
Value_add(a, b) ==
    IF a.tag = "Number" /\ b.tag = "Number" THEN Ok(Number(f64_add(a.n, b.n)))
    ELSE IF a.tag = "Obj" /\ b.tag = "Obj" THEN Ok(from_string(a.s \o b.s))
    ELSE Err

\* impl Sub for Value
Value_sub(a, b) ==
    IF a.tag = "Number" /\ b.tag = "Number" THEN Ok(Number(f64_sub(a.n, b.n)))
    ELSE Err

\* impl Mul for Value
Value_mul(a, b) ==
    IF a.tag = "Number" /\ b.tag = "Number" THEN Ok(Number(f64_mul(a.n, b.n)))
    ELSE Err

\* impl Div for Value
Value_div(a, b) ==
    IF a.tag = "Number" /\ b.tag = "Number" THEN Ok(Number(f64_div(a.n, b.n)))
    ELSE Err

\* impl Neg for Value
Value_neg(a) ==
    IF a.tag = "Number" THEN Ok(Number(f64_neg(a.n))) ELSE Err

(***************************************************************************)
(* OpCode: #[repr(u8)] enum, one byte per opcode, in declaration order.    *)
(***************************************************************************)
OP_RETURN == 0
OP_CONSTANT == 1
OP_NIL == 2
OP_TRUE == 3
OP_FALSE == 4
OP_NEGATE == 5
OP_NOT == 6
OP_ADD == 7
OP_SUBTRACT == 8
OP_MULTIPLY == 9
OP_DIVIDE == 10
OP_EQUAL == 11
OP_GREATER == 12
OP_LESS == 13
\* The statement and global-variable opcodes follow Less in the enum.
OP_PRINT == 14
OP_POP == 15
OP_DEFINE_GLOBAL == 16
OP_GET_GLOBAL == 17
OP_SET_GLOBAL == 18

\* the variants of OpCode, in declaration order
OpCodeNames ==
    <<"Return", "Constant", "Nil", "True", "False", "Negate", "Not", "Add",
      "Subtract", "Multiply", "Divide", "Equal", "Greater", "Less", "Print",
      "Pop", "DefineGlobal", "GetGlobal", "SetGlobal">>

OpCodes == { OpCodeNames[i] : i \in DOMAIN OpCodeNames }

\* impl From<OpCode> for u8
OpCode_into_u8(o) ==
    CASE o = "Return" -> OP_RETURN
      [] o = "Constant" -> OP_CONSTANT
      [] o = "Nil" -> OP_NIL
      [] o = "True" -> OP_TRUE
      [] o = "False" -> OP_FALSE
      [] o = "Negate" -> OP_NEGATE
      [] o = "Not" -> OP_NOT
      [] o = "Add" -> OP_ADD
      [] o = "Subtract" -> OP_SUBTRACT
      [] o = "Multiply" -> OP_MULTIPLY
      [] o = "Divide" -> OP_DIVIDE
      [] o = "Equal" -> OP_EQUAL
      [] o = "Greater" -> OP_GREATER
      [] o = "Less" -> OP_LESS
      [] o = "Print" -> OP_PRINT
      [] o = "Pop" -> OP_POP
      [] o = "DefineGlobal" -> OP_DEFINE_GLOBAL
      [] o = "GetGlobal" -> OP_GET_GLOBAL
      [] o = "SetGlobal" -> OP_SET_GLOBAL

\* impl TryFrom<u8> for OpCode; "UnknownOpCode" is Err(ChunkError::UnknownOpCode)
OpCode_try_from(value) ==
    CASE value = 0 -> "Return"
      [] value = 1 -> "Constant"
      [] value = 2 -> "Nil"
      [] value = 3 -> "True"
      [] value = 4 -> "False"
      [] value = 5 -> "Negate"
      [] value = 6 -> "Not"
      [] value = 7 -> "Add"
      [] value = 8 -> "Subtract"
      [] value = 9 -> "Multiply"
      [] value = 10 -> "Divide"
      [] value = 11 -> "Equal"
      [] value = 12 -> "Greater"
      [] value = 13 -> "Less"
      [] OTHER -> "UnknownOpCode"

(***************************************************************************)
(* Chunk {code, constants: Array<Value>, lines}.  The constant array holds *)
(* MAX_CONSTANTS slots, all Value::default() (Nil) at first; `constants`   *)
(* is its written prefix values[0..head).                                  *)
(***************************************************************************)
MAX_CONSTANTS == 256

\* Chunk::new
Chunk_new == [code |-> <<>>, constants |-> <<>>, lines |-> <<>>]

\* Array::len
Array_len(constants) == Len(constants)

\* Array::write: [arr, panicked]; todo!() when the array is full
Array_write(constants, value) ==
    IF Len(constants) >= MAX_CONSTANTS
    THEN [arr |-> constants, panicked |-> TRUE]
    ELSE [arr |-> Append(constants, value), panicked |-> FALSE]

\* Chunk::write
Chunk_write(chunk, byte, line) ==
    [chunk EXCEPT !.code = Append(@, byte), !.lines = Append(@, line)]

\* add_constant that returns its Err on a full pool after storing the value
\* past the end
Chunk_add_constant_unchecked(chunk, value, overflow_checks) ==
    [chunk |-> [chunk EXCEPT !.constants = Append(@, value)],
     res |-> IF Len(chunk.constants) >= MAX_CONSTANTS THEN "err" ELSE "ok",
     index |-> Len(chunk.constants) % 256]

\* Chunk::add_constant: [chunk, res, index]; res is "ok", "err" or "panic".
\* `len as u8 - 1` is evaluated in u8: a length of 256 truncates to 0 and the
\* subtraction overflows, which panics when overflow checks are compiled in
\* and wraps to 255 otherwise.
Chunk_add_constant(chunk, value, overflow_checks) ==
    IF Array_len(chunk.constants) >= MAX_CONSTANTS
    THEN [chunk |-> chunk, res |-> "err", index |-> 0]
    ELSE LET w == Array_write(chunk.constants, value)
             written == [chunk EXCEPT !.constants = w.arr]
             len_u8 == Array_len(w.arr) % 256
         IN  IF w.panicked
             THEN [chunk |-> chunk, res |-> "panic", index |-> 0]
             ELSE IF len_u8 = 0 /\ overflow_checks
             THEN [chunk |-> written, res |-> "panic", index |-> 0]
             ELSE [chunk |-> written, res |-> "ok",
                   index |-> (len_u8 + 255) % 256]

\* Chunk::read_constant: a slot never written still holds Value::default()
Chunk_read_constant(chunk, loc) ==
    IF loc < Len(chunk.constants) THEN chunk.constants[loc + 1] ELSE Nil

(***************************************************************************)
(* Token                                                                   *)
(***************************************************************************)
Token_new(token_type, lexeme, line) ==
    [token_type |-> token_type, lexeme |-> lexeme, line |-> line]

\* Option<Token>::None
NoToken == Token_new("None", <<>>, 0)

\* impl FromStr for TokenType; "Err" is Err(ParseError::UnknownTokenType)
TokenType_from_str(s) ==
    CASE s = <<"(">> -> "LeftParen"
      [] s = <<")">> -> "RightParen"
      [] s = <<"[">> -> "LeftBrace"
      [] s = <<"]">> -> "RightBrace"
      [] s = <<",">> -> "Comma"
      [] s = <<".">> -> "Dot"
      [] s = <<"-">> -> "Minus"
      [] s = <<"+">> -> "Plus"
      [] s = <<";">> -> "Semicolon"
      [] s = <<"/">> -> "Slash"
      [] s = <<"*">> -> "Star"
      [] s = <<"!">> -> "Bang"
      [] s = <<"!", "=">> -> "BangEqual"
      [] s = <<"=">> -> "Equal"
      [] s = <<"=", "=">> -> "EqualEqual"
      [] s = <<">">> -> "Greater"
      [] s = <<">", "=">> -> "GreaterEqual"
      [] s = <<"<">> -> "Less"
      [] s = <<"<", "=">> -> "LessEqual"
      [] s = <<"a", "n", "d">> -> "And"
      [] s = <<"c", "l", "a", "s", "s">> -> "Class"
      [] s = <<"e", "l", "s", "e">> -> "Else"
      [] s = <<"f", "o", "r">> -> "For"
      [] s = <<"f", "u", "n">> -> "Fun"
      [] s = <<"f", "a", "l", "s", "e">> -> "False"
      [] s = <<"i", "f">> -> "If"
      [] s = <<"n", "i", "l">> -> "Nil"
      [] s = <<"o", "r">> -> "Or"
      [] s = <<"p", "r", "i", "n", "t">> -> "Print"
      [] s = <<"r", "e", "t", "u", "r", "n">> -> "Return"
      [] s = <<"s", "u", "p", "e", "r">> -> "Super"
      [] s = <<"t", "h", "i", "s">> -> "This"
      [] s = <<"t", "r", "u", "e">> -> "True"
      [] s = <<"v", "a", "r">> -> "Var"
      [] s = <<"w", "h", "i", "l", "e">> -> "While"
      [] OTHER -> "Err"

(***************************************************************************)
(* Scanner {source, start, current, line}.  Option<char>::None is NoChar.  *)
(* Scanner operators return the new scanner, with a result where the code  *)
(* returns one.                                                            *)
(***************************************************************************)
NoChar == ""

\* Scanner::new
Scanner_new(source) ==
    [source |-> source, start |-> 0, current |-> 0, line |-> 1]

\* source.chars().nth(i)
nth(source, i) == IF i < Len(source) THEN source[i + 1] ELSE NoChar

\* Scanner::peek
peek(sc) == nth(sc.source, sc.current)

\* Scanner::peek_next
peek_next(sc) == nth(sc.source, sc.current + 1)

\* Scanner::next: the scanner after the call; the character returned is
\* nth(source, current - 1) of the result
next(sc) == [sc EXCEPT !.current = @ + 1]

next_char(sc) == nth(sc.source, sc.current)

\* a lookahead that reports the match without consuming the character
next_is_peeking(sc, c) == [sc |-> sc, is |-> peek(sc) = c]

\* Scanner::next_is: [sc, is]
next_is(sc, c) ==
    IF peek(sc) = c THEN [sc |-> [sc EXCEPT !.current = @ + 1], is |-> TRUE]
    ELSE [sc |-> sc, is |-> FALSE]

RECURSIVE skip_comment(_)
\* the inner loop of skip_whitespace: while peek is Some and not '\n', next()
skip_comment(sc) ==
    IF peek(sc) # NoChar /\ peek(sc) # "\n" THEN skip_comment(next(sc)) ELSE sc

RECURSIVE skip_whitespace(_)
\* Scanner::skip_whitespace
skip_whitespace(sc) ==
    LET c == peek(sc)
    IN  CASE c = NoChar -> sc
          [] c \in {" ", "\r", "\t"} -> skip_whitespace(next(sc))
          [] c = "\n" -> skip_whitespace(next([sc EXCEPT !.line = @ + 1]))
          [] c = "/" -> IF peek_next(sc) = "/"
                        THEN skip_whitespace(skip_comment(sc))
                        ELSE sc
          [] OTHER -> sc

\* Scanner::make_token: the lexeme is source.chars().skip(start).take(current - start)
make_token(sc, t) ==
    LET to == IF sc.current < Len(sc.source) THEN sc.current ELSE Len(sc.source)
    IN  Token_new(t, SubSeq(sc.source, sc.start + 1, to), sc.line)

ScanOk(sc, token) ==
    [sc |-> sc, res |-> "ok", token |-> token, at |-> 0, line |-> 0]

\* Err(ParseError::UnterminatedString(ErrorLoc {line, at}))
ScanErr(sc, at) ==
    [sc |-> sc, res |-> "err", token |-> NoToken, at |-> at, line |-> sc.line]

\* todo!()
ScanPanic(sc) ==
    [sc |-> sc, res |-> "panic", token |-> NoToken, at |-> 0, line |-> 0]

RECURSIVE string_body(_)
\* the loop of Scanner::string: up to the closing quote or the end of input
string_body(sc) ==
    LET c == peek(sc)
    IN  IF c # NoChar /\ c # "\""
        THEN string_body(next(IF c = "\n" THEN [sc EXCEPT !.line = @ + 1] ELSE sc))
        ELSE sc

\* a string token that leaves the closing quote out of its lexeme
string_close_without_quote(sc) ==
    IF peek(sc) = NoChar THEN ScanErr(sc, sc.start)
    ELSE ScanOk(next(sc), make_token(sc, "String"))

\* Scanner::string, after the loop: the closing quote is consumed, or the
\* input ended inside the string
string_close(sc) ==
    IF peek(sc) = NoChar THEN ScanErr(sc, sc.start)
    ELSE ScanOk(next(sc), make_token(next(sc), "String"))

\* Scanner::string
Scanner_string(sc) == string_close(string_body(sc))

RECURSIVE digits_run(_)
\* while peek is an ASCII digit, next()
digits_run(sc) ==
    IF peek(sc) # NoChar /\ is_ascii_digit(peek(sc)) THEN digits_run(next(sc)) ELSE sc

\* a fraction part that takes the dot whatever follows it
number_fraction_greedy(sc) ==
    IF peek(sc) = "." THEN digits_run(next(sc)) ELSE sc

\* Scanner::number, the fraction part: a '.' followed by a digit
number_fraction(sc) ==
    IF peek(sc) = "." /\ peek_next(sc) # NoChar /\ is_ascii_digit(peek_next(sc))
    THEN digits_run(next(sc))
    ELSE sc

\* Scanner::number, the token made at the end
number_token(sc) == ScanOk(sc, make_token(sc, "Number"))

\* Scanner::number
Scanner_number(sc) == number_token(number_fraction(digits_run(sc)))

RECURSIVE identifier_run(_)
\* while peek is alphanumeric or '_', next()
identifier_run(sc) ==
    LET c == peek(sc)
    IN  IF c # NoChar /\ (is_ascii_alphanumeric(c) \/ c = "_" \/ is_ascii_digit(c))
        THEN identifier_run(next(sc))
        ELSE sc

\* Scanner::identifier, after the loop: a keyword if TokenType::from_str knows
\* the text, an Identifier otherwise
identifier_token(sc) ==
    LET tt == TokenType_from_str(SubSeq(sc.source, sc.start + 1, sc.current))
    IN  ScanOk(sc, make_token(sc, IF tt # "Err" THEN tt ELSE "Identifier"))

\* Scanner::identifier
Scanner_identifier(sc) == identifier_token(identifier_run(sc))

\* the token of a one-or-two character operator, n being what next_is('=') gave
two_char_token(n, two, one) ==
    ScanOk(n.sc, make_token(n.sc, IF n.is THEN two ELSE one))

\* the one-or-two character operators of scan_token
two_char(sc, two, one) == two_char_token(next_is(sc, "="), two, one)

\* the match of scan_token on the character that next() returned
scan_char(sc) ==
    LET c == nth(sc.source, sc.current - 1)
    IN  CASE c = NoChar -> ScanOk(sc, make_token(sc, "Eof"))
          [] c = "(" -> ScanOk(sc, make_token(sc, "LeftParen"))
          [] c = ")" -> ScanOk(sc, make_token(sc, "RightParen"))
          [] c = "{" -> ScanOk(sc, make_token(sc, "LeftBrace"))
          [] c = "}" -> ScanOk(sc, make_token(sc, "RightBrace"))
          [] c = "," -> ScanOk(sc, make_token(sc, "Comma"))
          [] c = "." -> ScanOk(sc, make_token(sc, "Dot"))
          [] c = "-" -> ScanOk(sc, make_token(sc, "Minus"))
          [] c = "+" -> ScanOk(sc, make_token(sc, "Plus"))
          [] c = ";" -> ScanOk(sc, make_token(sc, "Semicolon"))
          [] c = "*" -> ScanOk(sc, make_token(sc, "Star"))
          [] c = "/" -> ScanOk(sc, make_token(sc, "Slash"))
          [] c = "!" -> two_char(sc, "BangEqual", "Bang")
          [] c = "=" -> two_char(sc, "EqualEqual", "Equal")
          [] c = "<" -> two_char(sc, "LessEqual", "Less")
          [] c = ">" -> two_char(sc, "GreaterEqual", "Greater")
          [] c = "\"" -> Scanner_string(sc)
          [] is_ascii_digit(c) -> Scanner_number(sc)
          [] is_ascii_alphabetic(c) \/ c = "_" -> Scanner_identifier(sc)
          [] OTHER -> ScanPanic(sc)

\* self.start = self.current
scan_start(sc) == [sc EXCEPT !.start = sc.current]

\* Scanner::scan_token: [sc, res, token, at]
scan_token(sc) == scan_char(next(scan_start(skip_whitespace(sc))))

(***************************************************************************)
(* Precedence and the parse rule table                                     *)
(***************************************************************************)
\* enum Precedence, lowest first (#[derive(PartialOrd)] orders by position)
Precedence ==
    <<"None", "Assignment", "Or", "And", "Equality", "Comparison", "Term",
      "Factor", "Unary", "Call", "Primary">>

PrecedenceRank(p) == CHOOSE i \in 1..Len(Precedence) : Precedence[i] = p

\* Precedence: a <= b
Precedence_le(a, b) == PrecedenceRank(a) <= PrecedenceRank(b)

\* Precedence: a > b
Precedence_gt(a, b) == PrecedenceRank(a) > PrecedenceRank(b)

\* Precedence::next
Precedence_next(p) ==
    CASE p = "None" -> "Assignment"
      [] p = "Assignment" -> "Or"
      [] p = "Or" -> "And"
      [] p = "And" -> "Equality"
      [] p = "Equality" -> "Comparison"
      [] p = "Comparison" -> "Term"
      [] p = "Term" -> "Factor"
      [] p = "Factor" -> "Unary"
      [] p = "Unary" -> "Call"
      [] p = "Call" -> "Primary"
      [] p = "Primary" -> "Primary"

ParseRule(prefix, infix, precedence) ==
    [prefix |-> prefix, infix |-> infix, precedence |-> precedence]

\* parse::parse_rule
parse_rule(tt) ==
    CASE tt = "LeftParen" -> ParseRule("Grouping", "None", "None")
      [] tt = "Minus" -> ParseRule("Unary", "Binary", "Term")
      [] tt = "Plus" -> ParseRule("None", "Binary", "Term")
      [] tt = "Slash" -> ParseRule("None", "Binary", "Factor")
      [] tt = "Star" -> ParseRule("None", "Binary", "Factor")
      [] tt = "Bang" -> ParseRule("Unary", "None", "None")
      [] tt = "BangEqual" -> ParseRule("None", "Binary", "Equality")
      [] tt = "EqualEqual" -> ParseRule("None", "Binary", "Equality")
      [] tt = "Greater" -> ParseRule("None", "Binary", "Comparison")
      [] tt = "GreaterEqual" -> ParseRule("None", "Binary", "Comparison")
      [] tt = "Less" -> ParseRule("None", "Binary", "Comparison")
      [] tt = "LessEqual" -> ParseRule("None", "Binary", "Comparison")
      [] tt = "Identifier" -> ParseRule("None", "None", "None")
      [] tt = "String" -> ParseRule("String", "None", "None")
      [] tt = "Number" -> ParseRule("Number", "None", "None")
      [] tt = "False" -> ParseRule("Literal", "None", "None")
      [] tt = "Nil" -> ParseRule("Literal", "None", "None")
      [] tt = "True" -> ParseRule("Literal", "None", "None")
      [] OTHER -> ParseRule("None", "None", "None")

(***************************************************************************)
(* Compiler {parser, scanner, compiling_chunk}.                            *)
(* A compiler value c also carries the diagnostics written to stderr, the  *)
(* flag `panicked` (a Rust panic unwinds out of compile: every later step  *)
(* of the compiler is skipped), the build's overflow-check setting and the *)
(* flag `too_many` (history: add_constant has returned its Err once).      *)
(* Operators that return a value beside the compiler return a record.      *)
(***************************************************************************)
\* Parser::new
Parser_new ==
    [current |-> NoToken, previous |-> NoToken,
     had_error |-> FALSE, panic_mode |-> FALSE]

\* Parser::advance
Parser_advance(parser) ==
    [parser EXCEPT !.previous = parser.current, !.current = NoToken]

\* Compiler::new
Compiler_new(source, overflow_checks) ==
    [parser |-> Parser_new,
     scanner |-> Scanner_new(source),
     chunk |-> Chunk_new,
     diagnostics |-> <<>>,
     panicked |-> FALSE,
     overflow_checks |-> overflow_checks,
     too_many |-> FALSE]

Panic(c) == [c EXCEPT !.panicked = TRUE]

\* add_constant returned Err("too many constants in this chunk")
TooMany(c) == [c EXCEPT !.too_many = TRUE]

\* an error report that panic-mode does not silence
error_at_unsuppressed(c, token, message) ==
    IF c.panicked THEN c
    ELSE [c EXCEPT !.parser.panic_mode = TRUE,
                   !.parser.had_error = TRUE,
                   !.diagnostics =
                       Append(@, [line |-> token.line,
                                  at_end |-> token.token_type = "Eof",
                                  lexeme |-> token.lexeme,
                                  message |-> message])]

\* Compiler::error_at
error_at(c, token, message) ==
    IF c.panicked \/ c.parser.panic_mode THEN c
    ELSE [c EXCEPT !.parser.panic_mode = TRUE,
                   !.parser.had_error = TRUE,
                   !.diagnostics =
                       Append(@, [line |-> token.line,
                                  at_end |-> token.token_type = "Eof",
                                  lexeme |-> token.lexeme,
                                  message |-> message])]

\* Compiler::error: previous.unwrap()
error(c, message) ==
    IF c.panicked THEN c
    ELSE IF c.parser.previous = NoToken THEN Panic(c)
    ELSE error_at(c, c.parser.previous, message)

\* Compiler::error_at_current: current.unwrap()
error_at_current(c, message) ==
    IF c.panicked THEN c
    ELSE IF c.parser.current = NoToken THEN Panic(c)
    ELSE error_at(c, c.parser.current, message)

RECURSIVE advance_loop(_), advance_scanned(_, _)
\* the loop of Compiler::advance: scan until a token is obtained
advance_loop(c) ==
    IF c.panicked THEN c ELSE advance_scanned(c, scan_token(c.scanner))

\* the match of Compiler::advance on the result r of scan_token
advance_scanned(c, r) ==
    CASE r.res = "ok" -> [c EXCEPT !.scanner = r.sc, !.parser.current = r.token]
      [] r.res = "err" ->
           advance_loop(error_at_current([c EXCEPT !.scanner = r.sc],
                                         c.parser.current.lexeme))
      [] r.res = "panic" -> Panic([c EXCEPT !.scanner = r.sc])

\* Compiler::advance
Compiler_advance(c) ==
    IF c.panicked THEN c
    ELSE advance_loop([c EXCEPT !.parser = Parser_advance(c.parser)])

\* Compiler::consume: [c, ok]
consume(c, tt, message) ==
    IF c.panicked THEN [c |-> c, ok |-> FALSE]
    ELSE IF c.parser.current = NoToken THEN [c |-> c, ok |-> FALSE]
    ELSE IF c.parser.current.token_type = tt
         THEN [c |-> Compiler_advance(c), ok |-> TRUE]
         ELSE [c |-> error_at_current(c, message), ok |-> FALSE]

\* Compiler::current_token_type_is: [c, is]
current_token_type_is(c, tt) ==
    IF c.panicked THEN [c |-> c, is |-> FALSE]
    ELSE IF c.parser.current = NoToken THEN [c |-> Panic(c), is |-> FALSE]
    ELSE IF c.parser.current.token_type = tt
         THEN [c |-> Compiler_advance(c), is |-> TRUE]
         ELSE [c |-> c, is |-> FALSE]

\* Compiler::emit_byte: previous.expect(..).line
emit_byte(c, byte) ==
    IF c.panicked THEN c
    ELSE IF c.parser.previous = NoToken THEN Panic(c)
    ELSE [c EXCEPT !.chunk = Chunk_write(@, byte, c.parser.previous.line)]

\* Compiler::emit_bytes
emit_bytes(c, byte1, byte2) == emit_byte(emit_byte(c, byte1), byte2)

\* Compiler::emit_constant after add_constant returned a: `?` returns its Err
emit_constant_added(c, a) ==
    CASE a.res = "ok" ->
           [c |-> emit_bytes([c EXCEPT !.chunk = a.chunk],
                             OpCode_into_u8("Constant"), a.index),
            ok |-> TRUE]
      [] a.res = "err" -> [c |-> TooMany(c), ok |-> FALSE]
      [] a.res = "panic" -> [c |-> Panic(c), ok |-> FALSE]

\* Compiler::emit_constant: [c, ok]; on Err nothing is emitted
emit_constant(c, value) ==
    IF c.panicked THEN [c |-> c, ok |-> FALSE]
    ELSE emit_constant_added(
             c, Chunk_add_constant(c.chunk, value, c.overflow_checks))

\* Compiler::emit_return
emit_return(c) == emit_byte(c, OpCode_into_u8("Return"))

\* Compiler::number: the result of emit_constant is dropped (let _ =)
Compiler_number(c) ==
    IF c.panicked THEN c
    ELSE emit_constant(c, Number(parse_f64(c.parser.previous.lexeme))).c

\* Compiler::string: the lexeme without its quotes
Compiler_string(c) ==
    IF c.panicked THEN c
    ELSE emit_constant(
             c, from_string(SubSeq(c.parser.previous.lexeme, 2,
                                   Len(c.parser.previous.lexeme) - 1))).c

\* Compiler::literal
literal(c) ==
    IF c.panicked THEN c
    ELSE LET tt == c.parser.previous.token_type
         IN  CASE tt = "False" -> emit_byte(c, OpCode_into_u8("False"))
               [] tt = "Nil" -> emit_byte(c, OpCode_into_u8("Nil"))
               [] tt = "True" -> emit_byte(c, OpCode_into_u8("True"))
               [] OTHER -> Panic(c)

RECURSIVE parse_precedence(_, _)

\* Compiler::expression
expression(c) == parse_precedence(c, "Assignment")

\* Compiler::named_variable, the branch taken: m.is holds when '=' followed
named_variable_emit(m, constant) ==
    IF m.is
    THEN emit_bytes(expression(m.c), OpCode_into_u8("SetGlobal"), constant)
    ELSE emit_bytes(m.c, OpCode_into_u8("GetGlobal"), constant)

\* Compiler::named_variable after add_constant returned a: unwrap panics on Err
named_variable_added(c, a, can_assign) ==
    IF a.res = "err" THEN Panic(TooMany(c))
    ELSE IF a.res = "panic" THEN Panic(c)
    ELSE named_variable_emit(
             IF can_assign
             THEN current_token_type_is([c EXCEPT !.chunk = a.chunk], "Equal")
             ELSE [c |-> [c EXCEPT !.chunk = a.chunk], is |-> FALSE],
             a.index)

\* Compiler::named_variable: add_constant(..).unwrap()
named_variable(c, name, can_assign) ==
    IF c.panicked THEN c
    ELSE named_variable_added(
             c,
             Chunk_add_constant(c.chunk, from_string(name.lexeme),
                                c.overflow_checks),
             can_assign)

\* Compiler::variable
variable(c, can_assign) ==
    IF c.panicked THEN c ELSE named_variable(c, c.parser.previous, can_assign)

\* Compiler::grouping
grouping(c) ==
    consume(expression(c), "RightParen", "expected ')' after expression)").c

\* the opcode Compiler::unary emits for an operator token
unary_emit(c, operator_type) ==
    CASE operator_type = "Minus" -> emit_byte(c, OpCode_into_u8("Negate"))
      [] operator_type = "Bang" -> emit_byte(c, OpCode_into_u8("Not"))
      [] OTHER -> Panic(c)

\* unary() parsing its operand at the lowest precedence
unary_at_assignment(c) ==
    IF c.panicked THEN c
    ELSE unary_emit(parse_precedence(c, "Assignment"),
                    c.parser.previous.token_type)

\* Compiler::unary
unary(c) ==
    IF c.panicked THEN c
    ELSE unary_emit(parse_precedence(c, "Unary"), c.parser.previous.token_type)

\* the opcodes Compiler::binary emits for an operator token
binary_emit(c, operator_type) ==
    CASE c.panicked -> c
      [] operator_type = "Plus" -> emit_byte(c, OpCode_into_u8("Add"))
      [] operator_type = "Minus" -> emit_byte(c, OpCode_into_u8("Subtract"))
      [] operator_type = "Star" -> emit_byte(c, OpCode_into_u8("Multiply"))
      [] operator_type = "Slash" -> emit_byte(c, OpCode_into_u8("Divide"))
      [] operator_type = "BangEqual" ->
           emit_bytes(c, OpCode_into_u8("Equal"), OpCode_into_u8("Not"))
      [] operator_type = "Equal" -> emit_byte(c, OpCode_into_u8("Equal"))
      [] operator_type = "EqualEqual" -> emit_byte(c, OpCode_into_u8("Equal"))
      [] operator_type = "Greater" -> emit_byte(c, OpCode_into_u8("Greater"))
      [] operator_type = "GreaterEqual" ->
           emit_bytes(c, OpCode_into_u8("Less"), OpCode_into_u8("Not"))
      [] operator_type = "Less" -> emit_byte(c, OpCode_into_u8("Equal"))
      [] operator_type = "LessEqual" ->
           emit_bytes(c, OpCode_into_u8("Greater"), OpCode_into_u8("Not"))
      [] OTHER -> Panic(c)

\* Compiler::binary: the right operand is parsed one level above the operator
binary(c) ==
    IF c.panicked THEN c
    ELSE binary_emit(
             parse_precedence(
                 c, Precedence_next(
                        parse_rule(c.parser.previous.token_type).precedence)),
             c.parser.previous.token_type)

\* the match on a ParseFn in parse_precedence (prefix and infix alike)
run_parse_fn(c, fn, can_assign) ==
    CASE fn = "None" -> error(c, "expected expression")
      [] fn = "Number" -> Compiler_number(c)
      [] fn = "Literal" -> literal(c)
      [] fn = "String" -> Compiler_string(c)
      [] fn = "Variable" -> variable(c, can_assign)
      [] fn = "Binary" -> binary(c)
      [] fn = "Unary" -> unary(c)
      [] fn = "Grouping" -> grouping(c)

RECURSIVE infix_loop(_, _, _), infix_turn(_, _, _, _)
\* the infix loop of parse_precedence
infix_loop(c, precedence, can_assign) ==
    IF c.panicked THEN c
    ELSE IF c.parser.current = NoToken THEN Panic(c)
    ELSE infix_turn(c, parse_rule(c.parser.current.token_type),
                    precedence, can_assign)

\* one turn of the infix loop, current_rule being the rule of the current token
infix_turn(c, current_rule, precedence, can_assign) ==
    IF Precedence_gt(precedence, current_rule.precedence) THEN c
    ELSE infix_loop(
             run_parse_fn(Compiler_advance(c), current_rule.infix, can_assign),
             precedence, can_assign)

\* parse_precedence: `if can_assign && current_token_type_is(Equal)`, m being
\* the outcome of the condition; then the infix loop
parse_assignment_target(m, precedence, can_assign) ==
    infix_loop(IF m.is THEN error(m.c, "invalid assignment target") ELSE m.c,
               precedence, can_assign)

\* parse_precedence after the prefix rule ran
parse_after_prefix(c, precedence, can_assign) ==
    parse_assignment_target(
        IF can_assign THEN current_token_type_is(c, "Equal")
        ELSE [c |-> c, is |-> FALSE],
        precedence, can_assign)

\* parse_precedence after advance(): the prefix rule of the previous token
parse_prefix(c, precedence, can_assign) ==
    IF c.panicked THEN c
    ELSE IF c.parser.previous = NoToken THEN Panic(c)
    ELSE parse_after_prefix(
             run_parse_fn(c, parse_rule(c.parser.previous.token_type).prefix,
                          can_assign),
             precedence, can_assign)

\* Compiler::parse_precedence
parse_precedence(c, precedence) ==
    parse_prefix(Compiler_advance(c), precedence,
                 Precedence_le(precedence, "Assignment"))

\* Compiler::parse_variable, the value returned: what add_constant returned
parse_variable_added(c, a) ==
    CASE a.res = "ok" ->
           [c |-> [c EXCEPT !.chunk = a.chunk], ok |-> TRUE, index |-> a.index]
      [] a.res = "err" -> [c |-> TooMany(c), ok |-> FALSE, index |-> 0]
      [] a.res = "panic" -> [c |-> Panic(c), ok |-> FALSE, index |-> 0]

\* Compiler::parse_variable after consume(Identifier) returned k: `?`
parse_variable_consumed(k) ==
    IF ~k.ok THEN [c |-> k.c, ok |-> FALSE, index |-> 0]
    ELSE parse_variable_added(
             k.c,
             Chunk_add_constant(k.c.chunk, from_string(k.c.parser.previous.lexeme),
                                k.c.overflow_checks))

\* Compiler::parse_variable: [c, ok, index]
parse_variable(c) ==
    parse_variable_consumed(consume(c, "Identifier", "expected variable name"))

\* Compiler::define_variable
define_variable(c, global) ==
    emit_bytes(c, OpCode_into_u8("DefineGlobal"), global)

\* var_declaration: the initializer expression, or Nil; m.is holds when '='
\* followed the name
var_initializer(m) ==
    IF m.is THEN expression(m.c) ELSE emit_byte(m.c, OpCode_into_u8("Nil"))

\* var_declaration after parse_variable returned v: unwrap panics on Err
var_declared(v) ==
    IF ~v.ok THEN Panic(v.c)
    ELSE define_variable(
             consume(var_initializer(current_token_type_is(v.c, "Equal")),
                     "Semicolon", "expected ';' after variable declaration").c,
             v.index)

\* Compiler::var_declaration: parse_variable().unwrap()
var_declaration(c) == var_declared(parse_variable(c))

\* Compiler::print_statement
print_statement(c) ==
    emit_byte(consume(expression(c), "Semicolon", "expect ';' after value.").c,
              OpCode_into_u8("Print"))

\* Compiler::expression_statement
expression_statement(c) ==
    emit_byte(consume(expression(c), "Semicolon", "expect ';' after value.").c,
              OpCode_into_u8("Pop"))

\* Compiler::statement, the branch taken: m.is holds when `print` was matched
statement_matched(m) ==
    IF m.is THEN print_statement(m.c) ELSE expression_statement(m.c)

\* Compiler::statement
statement(c) == statement_matched(current_token_type_is(c, "Print"))

SynchronizeStops ==
    {"Eof", "Class", "Fun", "Var", "For", "If", "While", "Print", "Return"}

RECURSIVE synchronize_loop(_)
\* the loop of Compiler::synchronize
synchronize_loop(c) ==
    IF c.panicked THEN c
    ELSE IF c.parser.current = NoToken THEN Panic(c)
    ELSE IF c.parser.current.token_type \in SynchronizeStops THEN c
    ELSE IF c.parser.previous = NoToken THEN Panic(c)
    ELSE IF c.parser.previous.token_type = "Semicolon" THEN c
    ELSE synchronize_loop(Compiler_advance(c))

\* Compiler::synchronize
synchronize(c) ==
    IF c.panicked THEN c
    ELSE synchronize_loop([c EXCEPT !.parser.panic_mode = FALSE])

\* Compiler::declaration, the branch taken: m.is holds when `var` was matched
declaration_matched(m) ==
    IF m.is THEN var_declaration(m.c) ELSE statement(m.c)

\* Compiler::declaration: `if self.parser.panic_mode { self.synchronize() }`
declaration_recover(c) ==
    IF c.panicked THEN c
    ELSE IF c.parser.panic_mode THEN synchronize(c)
    ELSE c

\* Compiler::declaration
declaration(c) ==
    declaration_recover(declaration_matched(current_token_type_is(c, "Var")))

(***************************************************************************)
(* Display (what println!("{}", value) and to_string() write)              *)
(***************************************************************************)
DigitChar(d) == <<"0", "1", "2", "3", "4", "5", "6", "7", "8", "9">>[d + 1]

RECURSIVE NatText(_)
\* the decimal digits of a natural number
NatText(n) ==
    IF n < 10 THEN <<DigitChar(n)>>
    ELSE Append(NatText(n \div 10), DigitChar(n % 10))

\* a finite nonzero double is normal from 2^-1022 on
IsNormal(x) == BitLen(x.m) + x.e > 0 - 1022

\* the exponent of the lowest of the 53 bits of the significand
Exponent(x) == IF IsNormal(x) THEN x.e - (53 - BitLen(x.m)) ELSE 0 - 1074

\* the significand is even: the bounds of the rounding interval belong to it
EvenSignificand(x) == x.e > Exponent(x)

\* the next double below is half as far as the next one above
NarrowBelow(x) == IsNormal(x) /\ x.m = <<1>>

\* flt2dec::decode: the value and the half distances to its neighbours as
\* multiples of one unit 2^unit; r / s is the value, mp / s and mm / s are
\* the distances up and down to the bounds of the rounding interval
DecodedUnits(x, mant, mp, unit) ==
    IF unit >= 0
    THEN [r |-> Shl(mant, unit), s |-> <<1>>, mp |-> Shl(mp, unit),
          mm |-> Pow2(unit), k |-> 0, even |-> EvenSignificand(x)]
    ELSE [r |-> mant, s |-> Pow2(0 - unit), mp |-> mp, mm |-> <<1>>, k |-> 0,
          even |-> EvenSignificand(x)]

\* the unit is a half of the lowest bit of the significand, or a quarter of
\* it where the next double below is nearer
UnitBits(x) == IF NarrowBelow(x) THEN 2 ELSE 1

f64_decode(x) ==
    DecodedUnits(x, Shl(x.m, x.e - Exponent(x) + UnitBits(x)), <<UnitBits(x)>>,
                 Exponent(x) - UnitBits(x))

\* r + mp reaches beyond s (or reaches s, the bound belonging to the interval)
ReachesUp(r, mp, s, even) ==
    BigCmp(s, BigAdd(r, mp)) < (IF even THEN 1 ELSE 0)

\* r stays within mm (or within mm inclusive)
ReachesDown(r, mm, even) == BigCmp(r, mm) < (IF even THEN 1 ELSE 0)

RECURSIVE ScaleUp(_), ScaleDown(_)
\* the least k with (r + mp) / s below 10^k: s is multiplied by ten ...
ScaleUp(d) ==
    IF ReachesUp(d.r, d.mp, d.s, d.even)
    THEN ScaleUp([d EXCEPT !.s = Times10(@), !.k = @ + 1])
    ELSE d

\* ... or r, mp and mm are
ScaleDown(d) ==
    IF ReachesUp(Times10(d.r), Times10(d.mp), d.s, d.even) THEN d
    ELSE ScaleDown([d EXCEPT !.r = Times10(@), !.mp = Times10(@),
                             !.mm = Times10(@), !.k = @ - 1])

\* the number a quotient below 32768 is
SmallNat(x) == DigitAt(x, 1)

RECURSIVE Generate(_, _, _, _, _, _), Generated(_, _, _, _, _, _),
          Decided(_, _, _, _, _, _, _, _)
\* flt2dec::strategy::dragon::format_shortest: the next digit is the quotient
\* of 10 r by s; the digits stop as soon as what is left lies within the
\* rounding interval, and the last digit goes up when the upper bound is the
\* one reached, or the nearer one of the two
Generate(r, s, mp, mm, even, digits) ==
    Generated(BigDivMod(Times10(r), s), s, Times10(mp), Times10(mm), even, digits)

Generated(dm, s, mp, mm, even, digits) ==
    Decided(dm, s, mp, mm, even, digits, ReachesDown(dm.r, mm, even),
            ReachesUp(dm.r, mp, s, even))

Decided(dm, s, mp, mm, even, digits, down, up) ==
    IF ~down /\ ~up
    THEN Generate(dm.r, s, mp, mm, even, Append(digits, SmallNat(dm.q)))
    ELSE IF up /\ (~down \/ BigLessEq(s, Shl(dm.r, 1)))
    THEN Append(digits, SmallNat(dm.q) + 1)
    ELSE Append(digits, SmallNat(dm.q))

DigitsText(digits) == [i \in 1..Len(digits) |-> DigitChar(digits[i])]

Zeros(n) == [i \in 1..n |-> "0"]

\* flt2dec::digits_to_dec_str: 0.d1d2... * 10^k written without an exponent
DecStr(digits, k) ==
    IF k <= 0 THEN <<"0", ".">> \o Zeros(0 - k) \o DigitsText(digits)
    ELSE IF k < Len(digits)
    THEN DigitsText(SubSeq(digits, 1, k)) \o <<".">>
         \o DigitsText(SubSeq(digits, k + 1, Len(digits)))
    ELSE DigitsText(digits) \o Zeros(k - Len(digits))

\* the shortest decimal that str::parse reads back as the same double
ShortestOf(d) == DecStr(Generate(d.r, d.s, d.mp, d.mm, d.even, <<>>), d.k)

\* r / s lies between 2^(n-1) and 2^(n+1) for n the difference of their bit
\* lengths, so the power of ten is about 0.30103 n
EstimatedPower(d) ==
    IF BitLen(d.r) >= BitLen(d.s)
    THEN ((BitLen(d.r) - BitLen(d.s)) * 30103) \div 100000
    ELSE 0 - (((BitLen(d.s) - BitLen(d.r)) * 30103) \div 100000)

\* r / s brought near 1 by the estimated power of ten p = 10^|k|
Estimated(d, k, p) ==
    IF k >= 0 THEN [d EXCEPT !.s = BigMul(p, @), !.k = k]
    ELSE [d EXCEPT !.r = BigMul(p, @), !.mp = BigMul(p, @), !.mm = BigMul(p, @),
                   !.k = k]

EstimatedBy(d, k) == Estimated(d, k, BigPow10(Abs(k)))

Scaled(d) == ScaleDown(ScaleUp(EstimatedBy(d, EstimatedPower(d))))

Shortest(x) == ShortestOf(Scaled(f64_decode(x)))

\* impl Display for f64: the shortest decimal that reads back as the same
\* value, without an exponent; an integral value has no fraction part
f64_display(x) ==
    CASE x.k = "nan" -> <<"N", "a", "N">>
      [] x.k = "inf" -> (IF x.neg THEN <<"-">> ELSE <<>>) \o <<"i", "n", "f">>
      [] IsZero(x) -> (IF x.neg THEN <<"-">> ELSE <<>>) \o <<"0">>
      [] OTHER -> (IF x.neg THEN <<"-">> ELSE <<>>) \o Shortest(x)

\* impl Display for Value (and for Obj)
Display(v) ==
    CASE v.tag = "Number" -> f64_display(v.n)
      [] v.tag = "Bool" -> (IF v.b THEN <<"t", "r", "u", "e">>
                            ELSE <<"f", "a", "l", "s", "e">>)
      [] v.tag = "Nil" -> <<"n", "i", "l">>
      [] v.tag = "Obj" -> v.s

(***************************************************************************)
(* Standard output is a sequence of entries, one per line written:         *)
(*   "header" : == RUN ==                                                  *)
(*   "disasm" : one disassemble_instruction line                           *)
(*   "partial": the offset (and line) columns of a disassemble_instruction *)
(*              line whose instruction then panicked                       *)
(*   "stack"  : the stack line of the execution trace                      *)
(*   "print"  : the line of a Print instruction                            *)
(***************************************************************************)
OutEntry(kind, offset, line, name, operand, text, items) ==
    [kind |-> kind, offset |-> offset, line |-> line, name |-> name,
     operand |-> operand, text |-> text, items |-> items]

HeaderEntry == OutEntry("header", 0, 0, "RUN", 0, <<>>, <<>>)

PrintEntry(v) == OutEntry("print", 0, 0, "", 0, Display(v), <<>>)

StackEntry(stack) ==
    OutEntry("stack", 0, 0, "", 0, <<>>,
             [i \in 1..Len(stack) |-> Display(stack[i])])

\* the line column of a disassembly line: 0 stands for "   | "
DisasmLineColumn(chunk, offset) ==
    IF offset > 0 /\ chunk.lines[offset + 1] = chunk.lines[offset] THEN 0
    ELSE chunk.lines[offset + 1]

\* what print! wrote before the instruction panicked
PartialEntry(chunk, offset) ==
    OutEntry("partial", offset, DisasmLineColumn(chunk, offset), "", 0, <<>>, <<>>)

SimpleInstruction(chunk, offset, name) ==
    [next |-> offset + 1, res |-> "ok",
     entry |-> OutEntry("disasm", offset, DisasmLineColumn(chunk, offset),
                        name, 0, <<>>, <<>>)]

\* an instruction with a one-byte constant-pool operand; code[offset + 1]
\* out of range panics
ConstantInstruction(chunk, offset, name) ==
    IF offset + 1 >= Len(chunk.code)
    THEN [next |-> offset, res |-> "panic", entry |-> PartialEntry(chunk, offset)]
    ELSE LET constant == chunk.code[offset + 2]
         IN  [next |-> offset + 2, res |-> "ok",
              entry |-> OutEntry("disasm", offset, DisasmLineColumn(chunk, offset),
                                 name, constant,
                                 Display(Chunk_read_constant(chunk, constant)),
                                 <<>>)]

\* Chunk::disassemble_instruction: [next, res, entry]; res is "ok" or "panic".
\* Equal, Greater and Less are todo!(); an unknown byte is written as such and
\* the offset is returned unchanged.
disassemble_instruction(chunk, offset) ==
    IF offset >= Len(chunk.lines) \/ offset >= Len(chunk.code)
    THEN [next |-> offset, res |-> "panic",
          entry |-> OutEntry("partial", offset, 0, "", 0, <<>>, <<>>)]
    ELSE LET op == OpCode_try_from(chunk.code[offset + 1])
         IN  CASE op = "Return" -> SimpleInstruction(chunk, offset, "OP_RETURN")
               [] op = "Negate" -> SimpleInstruction(chunk, offset, "OP_NEGATE")
               [] op = "Add" -> SimpleInstruction(chunk, offset, "OP_ADD")
               [] op = "Subtract" -> SimpleInstruction(chunk, offset, "OP_SUBTRACT")
               [] op = "Multiply" -> SimpleInstruction(chunk, offset, "OP_MULTIPLY")
               [] op = "Divide" -> SimpleInstruction(chunk, offset, "OP_DIVIDE")
               [] op = "Constant" -> ConstantInstruction(chunk, offset, "OP_CONSTANT")
               [] op = "Nil" -> SimpleInstruction(chunk, offset, "OP_NIL")
               [] op = "True" -> SimpleInstruction(chunk, offset, "OP_TRUE")
               [] op = "False" -> SimpleInstruction(chunk, offset, "OP_FALSE")
               [] op = "Not" -> SimpleInstruction(chunk, offset, "OP_NOT")
               [] op \in {"Equal", "Greater", "Less"} ->
                    [next |-> offset, res |-> "panic",
                     entry |-> PartialEntry(chunk, offset)]
               [] op = "UnknownOpCode" ->
                    [next |-> offset, res |-> "ok",
                     entry |-> OutEntry("disasm", offset,
                                        DisasmLineColumn(chunk, offset),
                                        "unknown opcode", chunk.code[offset + 1],
                                        <<>>, <<>>)]

(***************************************************************************)
(* VM {chunk, ip, stack, globals}: the instructions of VM::run as          *)
(* operators on a VM value vm = [ip, stack, globals, stdout, phase].       *)
(* The stack is a Vec: its top is the last element.  globals is a function *)
(* from the defined names to their values.                                 *)
(***************************************************************************)
NoGlobals == [name \in {} |-> Nil]

\* HashMap::insert
insert(globals, name, value) ==
    [k \in DOMAIN globals \cup {name} |-> IF k = name THEN value ELSE globals[k]]

\* HashMap::contains_key
contains_key(globals, name) == name \in DOMAIN globals

\* Vec::push
push(vm, value) == [vm EXCEPT !.stack = Append(@, value)]

\* Vec::pop, on a stack that is not empty
pop(vm) == [vm EXCEPT !.stack = SubSeq(@, 1, Len(@) - 1)]

\* Vec::last, on a stack that is not empty
last(vm) == vm.stack[Len(vm.stack)]

\* a panic inside run (unwrap on None, index out of range)
VM_panic(vm) == [vm EXCEPT !.phase = "panic"]

\* runtime_error() whose Err is not propagated: run goes on
runtime_error_ignored(vm) == vm

\* VM::runtime_error, propagated by `?`: run returns Err(InterpretError::Runtime)
runtime_error(vm) == [vm EXCEPT !.phase = "runtime_error"]

\* OpCode::Return
exec_Return(vm) == [vm EXCEPT !.phase = "ok"]

\* OpCode::Negate: nothing happens on an empty stack (if let Some)
exec_Negate(vm) ==
    IF vm.stack = <<>> THEN vm
    ELSE LET r == Value_neg(last(vm))
         IN  IF r.ok THEN push(pop(vm), r.v) ELSE runtime_error(pop(vm))

\* the operands of Add, Subtract, Multiply and Divide: b is popped first,
\* then a; either unwrap() panics on an empty stack
binary_operands(vm) ==
    IF Len(vm.stack) >= 2
    THEN [ok |-> TRUE, a |-> vm.stack[Len(vm.stack) - 1], b |-> last(vm),
          vm |-> pop(pop(vm))]
    ELSE [ok |-> FALSE, a |-> Nil, b |-> Nil,
          vm |-> VM_panic(IF vm.stack = <<>> THEN vm ELSE pop(vm))]

\* the arm after the pops: the result r of the operator is pushed, or its
\* Err becomes the runtime error
binary_result(o, r) ==
    IF ~o.ok THEN o.vm
    ELSE IF r.ok THEN push(o.vm, r.v) ELSE runtime_error(o.vm)

\* OpCode::Add
exec_Add(vm) ==
    binary_result(binary_operands(vm),
                  Value_add(binary_operands(vm).a, binary_operands(vm).b))

\* OpCode::Subtract
exec_Subtract(vm) ==
    binary_result(binary_operands(vm),
                  Value_sub(binary_operands(vm).a, binary_operands(vm).b))

\* OpCode::Multiply
exec_Multiply(vm) ==
    binary_result(binary_operands(vm),
                  Value_mul(binary_operands(vm).a, binary_operands(vm).b))

\* OpCode::Divide
exec_Divide(vm) ==
    binary_result(binary_operands(vm),
                  Value_div(binary_operands(vm).a, binary_operands(vm).b))

\* the one-byte operand at ip, with ip moved past it: [vm, operand]
read_operand(vm, chunk) ==
    IF vm.ip >= Len(chunk.code) THEN [vm |-> VM_panic(vm), operand |-> 0]
    ELSE [vm |-> [vm EXCEPT !.ip = @ + 1], operand |-> chunk.code[vm.ip + 1]]

\* OpCode::Constant
exec_Constant(vm, chunk) ==
    LET o == read_operand(vm, chunk)
    IN  IF o.vm.phase = "panic" THEN o.vm
        ELSE push(o.vm, Chunk_read_constant(chunk, o.operand))

\* OpCode::Nil
exec_Nil(vm) == push(vm, Nil)

\* OpCode::True
exec_True(vm) == push(vm, Bool(TRUE))

\* OpCode::False
exec_False(vm) == push(vm, Bool(FALSE))

\* OpCode::Not
exec_Not(vm) ==
    IF vm.stack = <<>> THEN VM_panic(vm)
    ELSE push(pop(vm), Bool(is_falsey(last(vm))))

\* the arm of a comparison after the pops: the Bool is pushed
compared(o, holds) == IF ~o.ok THEN o.vm ELSE push(o.vm, Bool(holds))

\* an Equal that refuses operands of different types
exec_Equal_typed(vm) ==
    IF binary_operands(vm).ok
       /\ binary_operands(vm).a.tag # binary_operands(vm).b.tag
    THEN runtime_error(binary_operands(vm).vm)
    ELSE compared(binary_operands(vm),
                  Value_eq(binary_operands(vm).a, binary_operands(vm).b))

\* OpCode::Equal
exec_Equal(vm) ==
    compared(binary_operands(vm),
             Value_eq(binary_operands(vm).a, binary_operands(vm).b))

\* OpCode::Greater
exec_Greater(vm) ==
    compared(binary_operands(vm),
             Value_gt(binary_operands(vm).a, binary_operands(vm).b))

\* OpCode::Less
exec_Less(vm) ==
    compared(binary_operands(vm),
             Value_lt(binary_operands(vm).a, binary_operands(vm).b))

\* OpCode::Print
exec_Print(vm) ==
    IF vm.stack = <<>> THEN VM_panic(vm)
    ELSE [pop(vm) EXCEPT !.stdout = Append(@, PrintEntry(last(vm)))]

\* OpCode::Pop: the result of Vec::pop is dropped, an empty stack stays empty
exec_Pop(vm) == IF vm.stack = <<>> THEN vm ELSE pop(vm)

\* a DefineGlobal that leaves the value on the stack
exec_DefineGlobal_keeping(vm, chunk) ==
    LET o == read_operand(vm, chunk)
        name == Display(Chunk_read_constant(chunk, o.operand))
    IN  IF o.vm.phase = "panic" THEN o.vm
        ELSE IF o.vm.stack = <<>> THEN VM_panic(o.vm)
        ELSE [o.vm EXCEPT !.globals = insert(@, name, last(o.vm))]

\* OpCode::DefineGlobal
exec_DefineGlobal(vm, chunk) ==
    LET o == read_operand(vm, chunk)
        name == Display(Chunk_read_constant(chunk, o.operand))
    IN  IF o.vm.phase = "panic" THEN o.vm
        ELSE IF o.vm.stack = <<>> THEN VM_panic(o.vm)
        ELSE pop([o.vm EXCEPT !.globals = insert(@, name, last(o.vm))])

\* a GetGlobal that reads an undefined name as nil
exec_GetGlobal_nil(vm, chunk) ==
    LET o == read_operand(vm, chunk)
        name == Display(Chunk_read_constant(chunk, o.operand))
    IN  IF o.vm.phase = "panic" THEN o.vm
        ELSE IF contains_key(o.vm.globals, name)
             THEN push(o.vm, o.vm.globals[name])
             ELSE push(o.vm, Nil)

\* OpCode::GetGlobal
exec_GetGlobal(vm, chunk) ==
    LET o == read_operand(vm, chunk)
        name == Display(Chunk_read_constant(chunk, o.operand))
    IN  IF o.vm.phase = "panic" THEN o.vm
        ELSE IF contains_key(o.vm.globals, name)
             THEN push(o.vm, o.vm.globals[name])
             ELSE runtime_error(o.vm)

\* a SetGlobal that defines the name it does not find
exec_SetGlobal_defining(vm, chunk) ==
    LET o == read_operand(vm, chunk)
        name == Display(Chunk_read_constant(chunk, o.operand))
    IN  IF o.vm.phase = "panic" THEN o.vm
        ELSE IF o.vm.stack = <<>> THEN VM_panic(o.vm)
        ELSE pop([o.vm EXCEPT !.globals = insert(@, name, last(o.vm))])

\* OpCode::SetGlobal
exec_SetGlobal(vm, chunk) ==
    LET o == read_operand(vm, chunk)
        name == Display(Chunk_read_constant(chunk, o.operand))
    IN  IF o.vm.phase = "panic" THEN o.vm
        ELSE IF ~contains_key(o.vm.globals, name) THEN runtime_error(o.vm)
        ELSE IF o.vm.stack = <<>> THEN VM_panic(o.vm)
        ELSE pop([o.vm EXCEPT !.globals = insert(@, name, last(o.vm))])

\* a run that goes on after a byte it could not decode
decode_error_ignored(vm) == vm

\* `instruction.try_into()?` on a byte OpCode::try_from refuses: run returns
\* Err(ChunkError::UnknownOpCode)
decode_error(vm) == [vm EXCEPT !.phase = "decode_error"]

\* the match of VM::run on what the fetched byte decoded to, vm being the VM
\* after the fetch.  OpCode::try_from yields none of Print, Pop, DefineGlobal,
\* GetGlobal, SetGlobal, so their arms are never taken.
execute(op, vm, chunk) ==
    CASE op = "Return" -> exec_Return(vm)
      [] op = "Negate" -> exec_Negate(vm)
      [] op = "Add" -> exec_Add(vm)
      [] op = "Subtract" -> exec_Subtract(vm)
      [] op = "Multiply" -> exec_Multiply(vm)
      [] op = "Divide" -> exec_Divide(vm)
      [] op = "Constant" -> exec_Constant(vm, chunk)
      [] op = "Nil" -> exec_Nil(vm)
      [] op = "True" -> exec_True(vm)
      [] op = "False" -> exec_False(vm)
      [] op = "Not" -> exec_Not(vm)
      [] op = "Equal" -> exec_Equal(vm)
      [] op = "Greater" -> exec_Greater(vm)
      [] op = "Less" -> exec_Less(vm)
      [] op = "Print" -> exec_Print(vm)
      [] op = "Pop" -> exec_Pop(vm)
      [] op = "DefineGlobal" -> exec_DefineGlobal(vm, chunk)
      [] op = "GetGlobal" -> exec_GetGlobal(vm, chunk)
      [] op = "SetGlobal" -> exec_SetGlobal(vm, chunk)
      [] op = "UnknownOpCode" -> decode_error(vm)

\* a trace that empties the stack it prints
trace_instruction_draining(vm, chunk) ==
    [vm EXCEPT !.stack = <<>>,
               !.stdout = @ \o <<StackEntry(vm.stack),
                                 disassemble_instruction(chunk, vm.ip).entry>>]

\* the stack line and the disassembly line d.entry of the trace
trace_lines(vm, d) ==
    [vm EXCEPT !.stdout = @ \o <<StackEntry(vm.stack), d.entry>>]

\* the VM t that has written the trace, d being what the disassembly returned
trace_written(t, d) == IF d.res = "panic" THEN VM_panic(t) ELSE t

trace_disassembled(vm, d) == trace_written(trace_lines(vm, d), d)

\* the execution trace written before an instruction when tracing is on
trace_instruction(vm, chunk) ==
    trace_disassembled(vm, disassemble_instruction(chunk, vm.ip))

\* `self.chunk.code[self.ip]` and `self.ip += 1` on the VM t that has written
\* its trace: the index panics past the end of the code
fetch_byte(t, chunk) ==
    IF t.phase = "panic" THEN t
    ELSE IF t.ip >= Len(chunk.code) THEN VM_panic(t)
    ELSE [t EXCEPT !.ip = @ + 1]

\* the head of the loop of VM::run: the trace, then the fetch (ip += 1)
fetch(vm, chunk, tracing) ==
    fetch_byte(IF tracing THEN trace_instruction(vm, chunk) ELSE vm, chunk)

\* what the byte at ip decodes to; "None" where ip is past the end of the code
decode(vm, chunk) ==
    IF vm.ip >= Len(chunk.code) THEN "None"
    ELSE OpCode_try_from(chunk.code[vm.ip + 1])

(***************************************************************************)
(* Source programs.  A program is written as a sequence of words (each a   *)
(* sequence of characters); its source text joins the words with spaces.   *)
(***************************************************************************)
kw_var == <<"v", "a", "r">>
kw_print == <<"p", "r", "i", "n", "t">>
kw_true == <<"t", "r", "u", "e">>
kw_false == <<"f", "a", "l", "s", "e">>
id_a == <<"a">>
id_b == <<"b">>
num_1 == <<"1">>
num_2 == <<"2">>
str_s == <<"\"", "s", "\"">>
t_eq == <<"=">>
t_semi == <<";">>
t_plus == <<"+">>
t_minus == <<"-">>
t_star == <<"*">>
t_slash == <<"/">>
t_bang == <<"!">>
t_lparen == <<"(">>
t_rparen == <<")">>

RECURSIVE Src(_)
\* the source text of a word sequence
Src(words) ==
    IF words = <<>> THEN <<>>
    ELSE IF Len(words) = 1 THEN words[1]
    ELSE words[1] \o <<" ">> \o Src(Tail(words))

RECURSIVE Concat(_)
\* the concatenation of a sequence of sequences
Concat(seqs) == IF seqs = <<>> THEN <<>> ELSE seqs[1] \o Concat(Tail(seqs))

\* statements of the language: declarations, assignments, prints and
\* expression statements over the variables a and b
StmtPool ==
    { <<kw_var, id_a, t_eq, num_1, t_semi>>,
      <<kw_var, id_a, t_eq, str_s, t_semi>>,
      <<kw_var, id_b, t_eq, num_2, t_semi>>,
      <<kw_var, id_a, t_semi>>,
      <<id_a, t_eq, num_2, t_semi>>,
      <<id_b, t_eq, id_a, t_semi>>,
      <<kw_print, id_a, t_eq, num_2, t_semi>>,
      <<kw_print, id_a, t_plus, id_b, t_semi>>,
      <<kw_print, t_minus, id_a, t_star, num_2, t_minus, num_1, t_slash, id_b,
        t_semi>>,
      <<kw_print, t_bang, id_a, t_semi>>,
      <<kw_true, t_semi>>,
      <<kw_print, kw_false, t_semi>> }

\* the longest statement sequence of a program
MaxStmts == 3

\* all sequences of at most n statements
StmtSeqs(n) == UNION { [1..k -> StmtPool] : k \in 0..n }

StmtPrograms == { Src(Concat(p)) : p \in StmtSeqs(MaxStmts) }

\* statements the compiler reports an error in (or panics on)
ErrPool ==
    { <<num_1>>,
      <<kw_print, num_1>>,
      <<kw_print, t_semi>>,
      <<kw_var, id_a, t_eq, t_semi>>,
      <<num_1, t_plus, t_semi>>,
      <<t_lparen, num_1, t_semi>>,
      <<num_1, t_eq, num_2, t_semi>>,
      <<kw_var, num_1, t_semi>> }

\* statements put before and after an erroneous one
ErrCompanions ==
    { <<kw_print, num_2, t_semi>>, <<kw_var, id_a, t_eq, num_1, t_semi>> }

ErrorPrograms ==
    { Src(e) : e \in ErrPool }
    \cup { Src(e \o g) : e \in ErrPool, g \in ErrCompanions }
    \cup { Src(g \o e) : g \in ErrCompanions, e \in ErrPool }

\* the source of test::arithmatic: (-1 + 2) * 3 - -4
Golden ==
    <<"(", "-", "1", " ", "+", " ", "2", ")", " ", "*", " ", "3", " ", "-", " ",
      "-", "4">>

Programs == StmtPrograms \cup ErrorPrograms \cup {Golden}

(***************************************************************************)
(* Arithmetic expressions as trees, for the programs `<expression> ;`:     *)
(*   <<"num", n>>, <<"neg", t>>, <<"bin", op, l, r>>                       *)
(* Unparse writes a tree with the parentheses the grammar needs: around a  *)
(* left operand that binds weaker than the operator, around a right        *)
(* operand that does not bind tighter, around a binary operand of unary -. *)
(* Eval is the value of the tree in f64 arithmetic.                        *)
(***************************************************************************)
\* the largest literal of an arithmetic expression
MaxLiteral == 1

\* the most operators (binary and unary) of an arithmetic expression
MaxOps == 2

BinOps == {"+", "-", "*", "/"}

NumTree(n) == <<"num", n>>

RECURSIVE TreesOfSize(_)
\* the trees with exactly k operators
TreesOfSize(k) ==
    IF k = 0 THEN { NumTree(n) : n \in 0..MaxLiteral }
    ELSE { <<"neg", t>> : t \in TreesOfSize(k - 1) }
         \cup UNION { { <<"bin", op, l, r>> :
                            op \in BinOps,
                            l \in TreesOfSize(i),
                            r \in TreesOfSize(k - 1 - i) } : i \in 0..(k - 1) }

ArithTrees == UNION { TreesOfSize(k) : k \in 0..MaxOps }

\* binding strength: + - below * / below unary - below a literal
TreeLevel(t) ==
    CASE t[1] = "num" -> 4
      [] t[1] = "neg" -> 3
      [] t[1] = "bin" -> IF t[2] \in {"+", "-"} THEN 1 ELSE 2

RECURSIVE Unparse(_)
Parenthesized(t, needed) ==
    IF needed THEN <<t_lparen>> \o Unparse(t) \o <<t_rparen>> ELSE Unparse(t)

\* the words of a tree
Unparse(t) ==
    CASE t[1] = "num" -> <<NatText(t[2])>>
      [] t[1] = "neg" -> <<t_minus>> \o Parenthesized(t[2], TreeLevel(t[2]) < 3)
      [] t[1] = "bin" ->
           Parenthesized(t[3], TreeLevel(t[3]) < TreeLevel(t))
           \o << <<t[2]>> >>
           \o Parenthesized(t[4], TreeLevel(t[4]) <= TreeLevel(t))

RECURSIVE Eval(_)
\* the reference evaluator: the f64 value of a tree
Eval(t) ==
    CASE t[1] = "num" -> FromInt(t[2])
      [] t[1] = "neg" -> f64_neg(Eval(t[2]))
      [] t[1] = "bin" /\ t[2] = "+" -> f64_add(Eval(t[3]), Eval(t[4]))
      [] t[1] = "bin" /\ t[2] = "-" -> f64_sub(Eval(t[3]), Eval(t[4]))
      [] t[1] = "bin" /\ t[2] = "*" -> f64_mul(Eval(t[3]), Eval(t[4]))
      [] t[1] = "bin" /\ t[2] = "/" -> f64_div(Eval(t[3]), Eval(t[4]))

\* the program of a tree: the expression statement `<expression> ;`
ArithSource(t) == Src(Unparse(t) \o <<t_semi>>)

\* no tree: the program was not built from one
NoTree == <<"none">>

(***************************************************************************)
(* Programs that fill the constant pool: `0;` repeated, then one more      *)
(* statement that needs a constant.                                        *)
(***************************************************************************)
\* n statements `0;`
Filler(n) == [i \in 1..(2 * n) |-> IF i % 2 = 1 THEN "0" ELSE ";"]

\* the statements appended to a full pool: a number, a string, a variable
\* reference and a variable declaration
OverflowTails ==
    { <<"0", ";">>, <<"\"", "s", "\"", ";">>, <<"a", ";">>,
      <<"v", "a", "r", " ", "a", ";">> }

OverflowPrograms ==
    { Filler(MAX_CONSTANTS - 1) }
    \cup { Filler(MAX_CONSTANTS) \o tail : tail \in OverflowTails }

(***************************************************************************)
(* Programs of one expression statement over operands of every type:       *)
(* comparisons of two numbers, `!` of a value, and + - * / and unary -     *)
(* over every pairing of operand types.                                    *)
(***************************************************************************)
kw_nil == <<"n", "i", "l">>
num_0 == <<"0">>
str_t == <<"\"", "t", "\"">>
str_empty == <<"\"", "\"">>
t_less == <<"<">>
t_greater == <<">">>
t_less_equal == <<"<", "=">>
t_greater_equal == <<">", "=">>

CompareOps == {t_less, t_greater, t_less_equal, t_greater_equal}

\* the tree of the comparison `x op y` of two number literals
CompareTree(op, x, y) == <<"cmp", op, x, y>>

CompareTrees ==
    { CompareTree(op, x, y) : op \in CompareOps, x \in 0..MaxLiteral,
                              y \in 0..MaxLiteral }

\* the program `x op y ;`
CompareSource(t) == Src(<<NatText(t[3]), t[2], NatText(t[4]), t_semi>>)

\* what the comparison of the tree is in arithmetic
CompareHolds(t) ==
    CASE t[2] = t_less -> t[3] < t[4]
      [] t[2] = t_greater -> t[3] > t[4]
      [] t[2] = t_less_equal -> ~(t[3] > t[4])
      [] t[2] = t_greater_equal -> ~(t[3] < t[4])

\* one operand word of each type: Number, String (two of them), Nil, Bool
OperandWords == {num_1, str_s, str_t, kw_nil, kw_true}

\* the operands of `!`: nil, both booleans, zero and the empty string included
NotWords == {kw_nil, kw_true, kw_false, num_0, num_1, str_empty, str_s}

ArithWords == {t_plus, t_minus, t_star, t_slash}

t_equal_equal == <<"=", "=">>

\* the tree of the comparison `x == y` of two operand words
EqualTree(x, y) == <<"eq", x, y>>

EqualTrees == { EqualTree(x, y) : x \in OperandWords, y \in OperandWords }

\* the program `x == y ;`
EqualSource(t) == Src(<<t[2], t_equal_equal, t[3], t_semi>>)

OperandPrograms ==
    { Src(<<x, op, y, t_semi>>) : x \in OperandWords, op \in ArithWords,
                                  y \in OperandWords }
    \cup { Src(<<t_minus, x, t_semi>>) : x \in OperandWords }
    \cup { Src(<<t_bang, x, t_semi>>) : x \in NotWords }

(***************************************************************************)
(* Programs for the compiler's diagnostics: an `=` after an expression     *)
(* that is no variable, two erroneous statements in a row, and texts the   *)
(* scanner fails on.                                                       *)
(***************************************************************************)
id_c == <<"c">>

\* an `=` after an expression that is not a bare variable reference
AssignTargetStmts ==
    { <<num_1, t_eq, num_2, t_semi>>,
      <<num_1, t_plus, num_2, t_eq, num_1, t_semi>>,
      <<id_a, t_plus, id_b, t_eq, id_c, t_semi>>,
      <<id_a, t_star, id_b, t_eq, id_c, t_semi>>,
      <<t_lparen, id_a, t_rparen, t_eq, num_1, t_semi>> }

AssignTargetPrograms == { Src(e) : e \in AssignTargetStmts }

\* statements with one syntax error each, ended by their semicolon
SyntaxErrorStmts ==
    { <<kw_print, t_semi>>,
      <<kw_var, id_a, t_eq, t_semi>>,
      <<num_1, t_plus, t_semi>>,
      <<t_lparen, num_1, t_semi>>,
      <<num_1, t_eq, num_2, t_semi>>,
      <<kw_var, num_1, t_semi>> }

\* two erroneous statements, the first ended by its semicolon
TwoErrorPrograms ==
    { Src(e1 \o e2) : e1 \in SyntaxErrorStmts, e2 \in SyntaxErrorStmts }

\* a string literal without its closing quote
str_open == <<"\"", "s">>

\* a character that starts no token
t_at == <<"@">>

\* texts the scanner returns its error on, at the first token and at a
\* later one
UnterminatedPrograms ==
    { Src(<<str_open>>),
      Src(<<kw_print, str_open>>),
      Src(<<kw_print, num_1, t_semi, str_open>>),
      Src(<<num_1, t_plus, str_open>>) }

\* texts with a character that starts no token
UnknownCharPrograms == { Src(<<t_at>>), Src(<<kw_print, t_at, t_semi>>) }

LexicalErrorPrograms == UnterminatedPrograms \cup UnknownCharPrograms

\* `var` followed by something other than a name
NamelessVarStmts ==
    { <<kw_var, num_1, t_semi>>,
      <<kw_var, t_semi>>,
      <<kw_var, kw_var, id_a, t_semi>> }

\* var declarations without a name, each followed by a print statement, and
\* var declarations with a name and no initializer
VarDeclarationPrograms ==
    { Src(e \o <<kw_print, num_2, t_semi>>) : e \in NamelessVarStmts }
    \cup { Src(<<kw_var, id_a, t_semi>>),
           Src(<<kw_var, id_a, t_semi, kw_var, id_b, t_semi>>) }

DiagnosticPrograms ==
    AssignTargetPrograms \cup TwoErrorPrograms \cup LexicalErrorPrograms
    \cup VarDeclarationPrograms
    \cup { Src(e) : e \in SyntaxErrorStmts }
    \cup { Src(g) : g \in ErrCompanions }

(***************************************************************************)
(* Source texts for the scanner alone: every text of at most MaxSourceLen  *)
(* characters over a quote, a newline, a letter and a character that       *)
(* starts no token.                                                        *)
(***************************************************************************)
\* the longest source text handed to the scanner alone
MaxSourceLen == 4

\* the most calls of scan_token made on one scanner
MaxScanCalls == 9

\* characters that belong to no token
UnknownChars == {"@", "#", "^"}

ScanAlphabet == {"\"", "\n", "a", "@"}

ScanSources == UNION { [1..k -> ScanAlphabet] : k \in 0..MaxSourceLen }

\* texts of digits, dots and a letter
NumberAlphabet == {"1", "2", ".", "x"}

NumberSources == UNION { [1..k -> NumberAlphabet] : k \in 0..MaxSourceLen }

\* texts of the characters that start a one-or-two character operator
OperatorAlphabet == {"!", "=", "<", ">"}

\* the operators of the text of test_scanner
OperatorGolden == <<">", ">", "=", "=", "=", "!", "!", "=", "=", "<", "<", "=">>

OperatorSources ==
    UNION { [1..k -> OperatorAlphabet] : k \in 0..MaxSourceLen }
    \cup {OperatorGolden}

(***************************************************************************)
(* Calls made on a Chunk alone.                                            *)
(***************************************************************************)
\* the most bytes written to a chunk used alone
MaxWrites == 2

\* the bytes and lines handed to Chunk::write
WrittenBytes == {OP_RETURN, OP_CONSTANT}

WrittenLines == {1, 2}

\* the value handed to Chunk::add_constant
AddedValue == Number(FromInt(0))

(***************************************************************************)
(* The error reporting of the compiler called on its own: error_at,        *)
(* advance and synchronize in any order, on the compiler that compile()    *)
(* built and advanced once.                                                *)
(***************************************************************************)
\* how many diagnostics are emitted before the calls stop
MaxErrors == 2

\* the messages error_at is called with
ErrorMessages == {"expected expression", "invalid assignment target"}

\* the texts the compiler is reporting errors of
ReportedPrograms ==
    { Src(e) : e \in SyntaxErrorStmts }
    \cup { Src(<<num_1, t_plus, t_semi, kw_print, num_1, t_semi>>) }

(***************************************************************************)
(* Values negated on their own, outside the VM.                            *)
(***************************************************************************)
\* how many negations are applied to one value, one after the other
MaxNots == 2

\* values of every variant, the number zero and the empty string among them
NegatedValues ==
    {Nil, Bool(TRUE), Bool(FALSE), Number(NaN), Number(Inf(FALSE)),
     Number(Inf(TRUE)), from_string(<<>>), from_string(<<"s">>),
     from_string(<<"0">>), from_string(<<"n", "i", "l">>)}
        \cup {Number(FromInt(i)) : i \in -MaxLiteral..MaxLiteral}

(***************************************************************************)
(* Chunks written by hand through Chunk::new, Chunk::write and             *)
(* Chunk::add_constant, and given to VM::run.  A chunk is written from a   *)
(* sequence of items: a byte, or a value that is added to the constant     *)
(* pool and loaded by Constant.  Every chunk ends with Return.             *)
(***************************************************************************)
\* the longest body of bytes of a chunk written by hand
MaxCodeLen == 3

\* byte values that are assigned to no opcode: the first one and the last
UnknownBytes == {19, 255}

BodyBytes == {OP_NIL, OP_POP} \cup UnknownBytes

\* an item that is one byte
Byte(b) == [load |-> FALSE, byte |-> b, value |-> Nil]

\* an item that is a constant and its load
Load(v) == [load |-> TRUE, byte |-> OP_CONSTANT, value |-> v]

\* bodies of one-byte instructions and of bytes that encode no opcode
CodeBodies ==
    UNION { [1..k -> { Byte(b) : b \in BodyBytes }] : k \in 0..MaxCodeLen }

\* the items that push an operand: a constant, or Nil, True, False
OperandLoads ==
    { Load(Number(FromInt(i))) : i \in 0..MaxLiteral }
    \cup { Load(from_string(str)) : str \in {<<>>, <<"s">>, <<"t">>} }
    \cup { Byte(OP_NIL), Byte(OP_TRUE), Byte(OP_FALSE) }

BinaryBytes == {OP_ADD, OP_SUBTRACT, OP_MULTIPLY, OP_DIVIDE}

UnaryBytes == {OP_NEGATE, OP_NOT}

\* what follows the operator: nothing, or one more instruction
BodyTails == {<<>>, <<Byte(OP_NOT)>>}

\* bodies that push operands and apply one operator to them
OperandBodies ==
    { <<x, y, Byte(op)>> \o tail :
          x \in OperandLoads, y \in OperandLoads, op \in BinaryBytes,
          tail \in BodyTails }
    \cup { <<x, Byte(op)>> \o tail :
               x \in OperandLoads, op \in UnaryBytes, tail \in BodyTails }

\* Constant and the index add_constant returned are written
WriteConstant(a) ==
    Chunk_write(Chunk_write(a.chunk, OP_CONSTANT, 1), a.index, 1)

\* one item written, on line 1
WriteItem(chunk, item) ==
    IF item.load THEN WriteConstant(Chunk_add_constant(chunk, item.value, FALSE))
    ELSE Chunk_write(chunk, item.byte, 1)

RECURSIVE WriteAll(_, _)
\* every item of `items` written, one after the other
WriteAll(chunk, items) ==
    IF items = <<>> THEN chunk
    ELSE WriteAll(WriteItem(chunk, items[1]), Tail(items))

\* the chunk of a body: Chunk::new, the body, Return
HandWritten(body) == WriteAll(Chunk_new, body \o <<Byte(OP_RETURN)>>)

(***************************************************************************)
(* The state machine: VM::interpret(source).                               *)
(*   phase : "start" -> "compiling" -> "compiled" ->                       *)
(*           "disassembling" -> "running" -> "ok" | "runtime_error" |      *)
(*           "decode_error"; "panic" from anywhere; "hang" when the        *)
(*           disassembly never ends                                        *)
(*   compiler : the Compiler value of compile()                            *)
(*   tracing  : LOX_TRACE_EXECUTION                                        *)
(*   ip, stack, globals : the VM                                           *)
(*   stdout   : the lines written to standard output                       *)
(*   offset   : the local `offset` of Chunk::disassemble                   *)
(*   stmts    : per call of declaration(), the code range it emitted and   *)
(*              whether it ran without a diagnostic (history)              *)
(*   last_op  : the opcode run() executed last, "None" before; where the   *)
(*              Chunk is used alone, its method called last and the result *)
(*              (history)                                                  *)
(*   expr     : the tree an arithmetic program was written from (input)    *)
(*   scanned  : the results of the calls of scan_token made directly on    *)
(*              the scanner, oldest first (history)                        *)
(***************************************************************************)
VARIABLES phase, compiler, tracing, ip, stack, globals, stdout, offset,
          stmts, last_op, expr, scanned

vars ==
    <<phase, compiler, tracing, ip, stack, globals, stdout, offset,
      stmts, last_op, expr, scanned>>

\* the chunk the VM borrows is the one compile() returned
chunk == compiler.chunk

source == compiler.scanner.source

VMValue ==
    [ip |-> ip, stack |-> stack, globals |-> globals, stdout |-> stdout,
     phase |-> phase]

\* the state before VM::interpret(source) compiles
InitState(src, tree, build, trace) ==
    /\ phase = "start"
    /\ compiler = Compiler_new(src, build)
    /\ tracing = trace
    /\ ip = 0
    /\ stack = <<>>
    /\ globals = NoGlobals
    /\ stdout = <<>>
    /\ offset = 0
    /\ stmts = <<>>
    /\ last_op = "None"
    /\ expr = tree
    /\ scanned = <<>>

Init == \E src \in Programs, build \in BOOLEAN : InitState(src, NoTree, build, FALSE)

InitArith == \E t \in ArithTrees : InitState(ArithSource(t), t, FALSE, FALSE)

InitOverflow ==
    \E src \in OverflowPrograms, build \in BOOLEAN :
        InitState(src, NoTree, build, FALSE)

InitScan ==
    \E src \in ScanSources \cup NumberSources \cup OperatorSources :
        InitState(src, NoTree, FALSE, FALSE)

InitDiagnostics ==
    \E src \in DiagnosticPrograms : InitState(src, NoTree, FALSE, FALSE)

InitChunk == \E build \in BOOLEAN : InitState(<<>>, NoTree, build, FALSE)

\* a VM about to run a chunk written by hand, the trace on or off
InitBytes ==
    \E body \in CodeBodies \cup OperandBodies, trace \in BOOLEAN :
        /\ phase = "compiled"
        /\ compiler = [Compiler_new(<<>>, FALSE) EXCEPT !.chunk = HandWritten(body)]
        /\ tracing = trace
        /\ ip = 0
        /\ stack = <<>>
        /\ globals = NoGlobals
        /\ stdout = <<>>
        /\ offset = 0
        /\ stmts = <<>>
        /\ last_op = "None"
        /\ expr = NoTree
        /\ scanned = <<>>

InitOperands ==
    \/ \E src \in OperandPrograms : InitState(src, NoTree, FALSE, FALSE)
    \/ \E t \in CompareTrees : InitState(CompareSource(t), t, FALSE, FALSE)
    \/ \E t \in EqualTrees : InitState(EqualSource(t), t, FALSE, FALSE)

VMUnchanged ==
    UNCHANGED <<tracing, ip, stack, globals, stdout, offset, last_op,
                expr, scanned>>

CompilePhase(c, then) == IF c.panicked THEN "panic" ELSE then

\* compile(): Compiler::new and the first advance()
CompileBegin ==
    /\ phase = "start"
    /\ compiler' = Compiler_advance(compiler)
    /\ phase' = CompilePhase(compiler', "compiling")
    /\ UNCHANGED stmts
    /\ VMUnchanged

\* compile(): one turn of the loop, the current token not being Eof
CompileDeclaration ==
    /\ phase = "compiling"
    /\ compiler.parser.current.token_type # "Eof"
    /\ compiler' = declaration(compiler)
    /\ phase' = CompilePhase(compiler', "compiling")
    /\ stmts' = Append(stmts,
                       [start |-> Len(compiler.chunk.code),
                        end |-> Len(compiler'.chunk.code),
                        clean |-> /\ ~compiler'.panicked
                                  /\ compiler'.diagnostics = compiler.diagnostics])
    /\ VMUnchanged

\* compile(): the current token is Eof: it is consumed, Return is emitted and
\* Ok(chunk) is returned, whatever had_error holds
CompileEnd ==
    /\ phase = "compiling"
    /\ compiler.parser.current.token_type = "Eof"
    /\ compiler' = emit_return(current_token_type_is(compiler, "Eof").c)
    /\ phase' = CompilePhase(compiler', "compiled")
    /\ UNCHANGED stmts
    /\ VMUnchanged

\* VM::interpret builds the VM and calls run(), which calls
\* chunk.disassemble("RUN"): the header line and `let mut offset = 0`
RunBegin ==
    /\ phase = "compiled"
    /\ stdout' = Append(stdout, HeaderEntry)
    /\ offset' = 0
    /\ phase' = IF 0 < Len(chunk.code) THEN "disassembling" ELSE "running"
    /\ ip' = 0
    /\ stack' = <<>>
    /\ globals' = NoGlobals
    /\ UNCHANGED <<compiler, tracing, stmts, last_op, expr, scanned>>

\* the phase after one turn of the loop of Chunk::disassemble that returned d:
\* an offset that does not advance is never left again
DisassembledPhase(d) ==
    CASE d.res = "panic" -> "panic"
      [] d.next = offset -> "hang"
      [] d.next < Len(chunk.code) -> "disassembling"
      [] OTHER -> "running"

\* Chunk::disassemble: one turn of `while offset < self.code.len()`
Disassembled(d) ==
    /\ stdout' = Append(stdout, d.entry)
    /\ offset' = d.next
    /\ phase' = DisassembledPhase(d)
    /\ UNCHANGED <<compiler, tracing, ip, stack, globals, stmts, last_op, expr, scanned>>

Disassemble ==
    /\ phase = "disassembling"
    /\ Disassembled(disassemble_instruction(chunk, offset))

\* run() is about to fetch a byte that decodes to op
Decoded(op) ==
    /\ phase = "running"
    /\ ip < Len(chunk.code)
    /\ OpCode_try_from(chunk.code[ip + 1]) = op

Fetched == fetch(VMValue, chunk, tracing)

\* what the byte run() is about to fetch decodes to
OpAtIp == decode(VMValue, chunk)

\* the VM after one turn of the loop of run()
Commit(vm) ==
    /\ ip' = vm.ip
    /\ stack' = vm.stack
    /\ globals' = vm.globals
    /\ stdout' = vm.stdout
    /\ phase' = vm.phase
    /\ UNCHANGED <<compiler, tracing, offset, stmts, expr, scanned>>

\* one turn of the loop of run() on the opcode op, vm being the VM after the
\* instruction; a panic in the trace or in the fetch ends the turn before
\* the instruction is executed
Turned(op, fetched, vm) ==
    /\ Commit(IF fetched.phase = "panic" THEN fetched ELSE vm)
    /\ last_op' = op

\* VM::run: one turn of its loop: the trace, the fetch, the decode and the
\* arm of the opcode
RunTurn ==
    /\ phase = "running"
    /\ Turned(OpAtIp, Fetched, execute(OpAtIp, Fetched, chunk))

\* VM::interpret(source): compile(), then run()
Next ==
    \/ CompileBegin
    \/ CompileDeclaration
    \/ CompileEnd
    \/ RunBegin
    \/ Disassemble
    \/ RunTurn

Spec == Init /\ [][Next]_vars

\* the steps of a program that holds a statement: the disassembly that opens
\* run() does not get past the statement's opcode
NextStatement ==
    \/ CompileBegin
    \/ CompileDeclaration
    \/ CompileEnd
    \/ RunBegin
    \/ Disassemble

SpecArith == InitArith /\ [][NextStatement]_vars

SpecOverflow == InitOverflow /\ [][NextStatement]_vars

\* the state after a call of a Chunk method: the chunk, and what was called
ChunkCalled(next_chunk, call, crashed) ==
    /\ compiler' = [compiler EXCEPT !.chunk = next_chunk]
    /\ last_op' = call
    /\ phase' = IF crashed THEN "panic" ELSE "start"
    /\ UNCHANGED <<tracing, ip, stack, globals, stdout, offset, stmts,
                   expr, scanned>>

\* one call of Chunk::write on the chunk Chunk::new built
ChunkWrite ==
    /\ phase = "start"
    /\ Len(chunk.code) < MaxWrites
    /\ \E byte \in WrittenBytes, line \in WrittenLines :
           ChunkCalled(Chunk_write(chunk, byte, line), "write", FALSE)

\* the name of a call of add_constant that returned r
AddConstantCall(r) ==
    CASE r.res = "ok" -> "add_constant Ok"
      [] r.res = "err" -> "add_constant Err"
      [] r.res = "panic" -> "add_constant panic"

\* the state after a call of add_constant that returned r
AddConstantReturned(r) == ChunkCalled(r.chunk, AddConstantCall(r), r.res = "panic")

\* one call of Chunk::add_constant
ChunkAddConstant ==
    /\ phase = "start"
    /\ AddConstantReturned(
           Chunk_add_constant(chunk, AddedValue, compiler.overflow_checks))

NextChunk == ChunkWrite \/ ChunkAddConstant

SpecChunk == InitChunk /\ [][NextChunk]_vars

\* the steps of VM::run on a chunk written by hand
NextBytes ==
    \/ RunBegin
    \/ Disassemble
    \/ RunTurn

SpecBytes == InitBytes /\ [][NextBytes]_vars

\* a compiler inside a declaration: compile() made it and advanced it once
InitErrors ==
    \E src \in ReportedPrograms :
        /\ phase = "parsing"
        /\ compiler = Compiler_advance(Compiler_new(src, FALSE))
        /\ tracing = FALSE
        /\ ip = 0
        /\ stack = <<>>
        /\ globals = NoGlobals
        /\ stdout = <<>>
        /\ offset = 0
        /\ stmts = <<>>
        /\ last_op = "None"
        /\ expr = NoTree
        /\ scanned = <<>>

\* the state after a call of a method of the compiler that left it as next_c
CompilerCalled(next_c, call) ==
    /\ compiler' = next_c
    /\ last_op' = call
    /\ phase' = IF next_c.panicked THEN "panic" ELSE "parsing"
    /\ UNCHANGED <<tracing, ip, stack, globals, stdout, offset, stmts,
                   expr, scanned>>

\* the tokens error() and error_at_current() hand to error_at
ReportedTokens == {compiler.parser.previous, compiler.parser.current} \ {NoToken}

\* one call of Compiler::error_at
ErrorAtCall ==
    /\ phase = "parsing"
    /\ compiler.parser.panic_mode \/ Len(compiler.diagnostics) < MaxErrors
    /\ \E token \in ReportedTokens, message \in ErrorMessages :
           CompilerCalled(error_at(compiler, token, message), "error_at")

\* one call of Compiler::advance, the current token not being Eof
AdvanceCall ==
    /\ phase = "parsing"
    /\ compiler.parser.current.token_type # "Eof"
    /\ CompilerCalled(Compiler_advance(compiler), "advance")

\* one call of Compiler::synchronize, as declaration() makes it
SynchronizeCall ==
    /\ phase = "parsing"
    /\ compiler.parser.panic_mode
    /\ CompilerCalled(synchronize(compiler), "synchronize")

\* the steps of compile(), and the calls of the error reporting on its own
NextErrors ==
    \/ CompileBegin
    \/ CompileDeclaration
    \/ CompileEnd
    \/ ErrorAtCall
    \/ AdvanceCall
    \/ SynchronizeCall

InitReporting == InitDiagnostics \/ InitErrors

SpecErrors == InitReporting /\ [][NextErrors]_vars

\* an opcode about to be converted into its byte, or a byte about to be
\* decoded; expr holds what was drawn
InitOpCode ==
    /\ \/ \E o \in OpCodes :
              phase = "opcode" /\ last_op = o /\ ip = 0 /\ expr = <<"op", o>>
       \/ \E b \in 0..255 :
              phase = "byte" /\ last_op = "None" /\ ip = b /\ expr = <<"byte", b>>
    /\ compiler = Compiler_new(<<>>, FALSE)
    /\ tracing = FALSE
    /\ stack = <<>>
    /\ globals = NoGlobals
    /\ stdout = <<>>
    /\ offset = 0
    /\ stmts = <<>>
    /\ scanned = <<>>

\* `u8::from(opcode)`, as emit_byte and emit_bytes do
OpCodeInto ==
    /\ phase = "opcode"
    /\ ip' = OpCode_into_u8(last_op)
    /\ phase' = "byte"
    /\ UNCHANGED <<compiler, tracing, stack, globals, stdout, offset, stmts,
                   last_op, expr, scanned>>

\* `OpCode::try_from(byte)`, as VM::run and disassemble_instruction do
OpCodeTryFrom ==
    /\ phase = "byte"
    /\ last_op' = OpCode_try_from(ip)
    /\ phase' = "decoded"
    /\ UNCHANGED <<compiler, tracing, ip, stack, globals, stdout, offset, stmts,
                   expr, scanned>>

NextOpCode == OpCodeInto \/ OpCodeTryFrom

SpecOpCode == InitOpCode /\ [][NextOpCode]_vars

\* a value, and the results of the negations applied to it so far
InitValue ==
    \E v \in NegatedValues :
        /\ phase = "value"
        /\ compiler = Compiler_new(<<>>, FALSE)
        /\ tracing = FALSE
        /\ ip = 0
        /\ stack = <<v>>
        /\ globals = NoGlobals
        /\ stdout = <<>>
        /\ offset = 0
        /\ stmts = <<>>
        /\ last_op = "None"
        /\ expr = NoTree
        /\ scanned = <<>>

\* the state after a negation of the value on top returned result
Negated(call, result) ==
    /\ phase = "value"
    /\ Len(stack) <= MaxNots
    /\ stack' = Append(stack, result)
    /\ last_op' = call
    /\ UNCHANGED <<phase, compiler, tracing, ip, globals, stdout, offset,
                   stmts, expr, scanned>>

\* `!value`
ValueNot == Negated("not", Value_not(stack[Len(stack)]))

\* `!&value`
ValueNotRef == Negated("not ref", Value_not_ref(stack[Len(stack)]))

\* `Value::Bool(value.is_falsey())`
ValueIsFalsey == Negated("is_falsey", Bool(is_falsey(stack[Len(stack)])))

NextValue == ValueNot \/ ValueNotRef \/ ValueIsFalsey

SpecValue == InitValue /\ [][NextValue]_vars

\* the steps of compile()
NextDiagnostics ==
    \/ CompileBegin
    \/ CompileDeclaration
    \/ CompileEnd

SpecDiagnostics == InitDiagnostics /\ [][NextDiagnostics]_vars

\* the result of a call of scan_token as its caller sees it
ScanResult(r) == [res |-> r.res, token |-> r.token, at |-> r.at, line |-> r.line]

\* one call of Scanner::scan_token on the scanner Scanner::new built, by a
\* caller that goes on calling whatever is returned (as the tests of
\* scanner.rs do); todo!() ends the process
ScanToken ==
    /\ phase = "start"
    /\ Len(scanned) < MaxScanCalls
    /\ scanned' = Append(scanned, ScanResult(scan_token(compiler.scanner)))
    /\ compiler' = [compiler EXCEPT !.scanner = scan_token(compiler.scanner).sc]
    /\ phase' = IF scan_token(compiler.scanner).res = "panic" THEN "panic" ELSE "start"
    /\ UNCHANGED <<tracing, ip, stack, globals, stdout, offset, stmts,
                   last_op, expr>>

NextScan == ScanToken

SpecScan == InitScan /\ [][NextScan]_vars

SpecOperands == InitOperands /\ [][NextStatement]_vars

(***************************************************************************)
(* The loop of VM::run on a VM taken by itself.  No chunk that compile()   *)
(* returns brings run() to an Equal or to the fetch of a byte that encodes *)
(* no opcode: the chunk is disassembled first, and that ends in a crash or *)
(* never ends.  A turn of the loop is a function of the VM and the chunk;  *)
(* it is applied here to VMs drawn from bounded sets.                      *)
(*                                                                         *)
(* No turn of the loop enters the arms of DefineGlobal, GetGlobal and      *)
(* SetGlobal: OpCode::try_from decodes no byte to them.  The body of each  *)
(* arm is a function of the VM and the chunk all the same: it reads the    *)
(* operand byte at ip, which indexes a name in the constant pool, and      *)
(* works on the stack and the global table.  The bodies are applied here   *)
(* as such functions, to VMs drawn from bounded sets.                      *)
(*   phase "arm": the body of the arm expr names is about to be applied;   *)
(*   ip is at its operand byte.  phase "returned": the body has run to its *)
(*   end without an error.  No step of run() leads to or from these.       *)
(***************************************************************************)
\* the deepest operand stack of a drawn VM
MaxArmStack == 2

\* the values of the four tags that the stack of a drawn VM holds
ArmValues ==
    {Nil, Bool(TRUE), Bool(FALSE), Number(FromInt(0)), Number(FromInt(1)),
     from_string(<<>>), from_string(<<"s">>)}

ArmStacks == UNION { [1..k -> ArmValues] : k \in 0..MaxArmStack }

\* the global tables of a drawn VM: over none, one or both of a and b
ArmTables ==
    UNION { [names -> {Number(FromInt(1)), from_string(<<"s">>)}] :
                names \in SUBSET {id_a, id_b} }

\* the arms that read a one-byte operand: the index of a name in the pool
GlobalArms == {"DefineGlobal", "GetGlobal", "SetGlobal"}

\* Chunk::new and the names a and b added to its constant pool
NamePool ==
    Chunk_add_constant(
        Chunk_add_constant(Chunk_new, from_string(id_a), FALSE).chunk,
        from_string(id_b), FALSE).chunk

\* the chunk the body of an arm on a global reads: the names a and b in the
\* constant pool, and the operand byte k, the index of one of them
OperandChunk(k) == WriteAll(NamePool, <<Byte(k)>>)

\* the chunk of one Equal: the opcode byte, Return
EqualChunk == WriteAll(Chunk_new, <<Byte(OP_EQUAL), Byte(OP_RETURN)>>)

\* a VM inside run()
InitVM(at, c, trace, stk, tbl, drawn) ==
    /\ phase = at
    /\ compiler = [Compiler_new(<<>>, FALSE) EXCEPT !.chunk = c]
    /\ tracing = trace
    /\ ip = 0
    /\ stack = stk
    /\ globals = tbl
    /\ stdout = <<>>
    /\ offset = 0
    /\ stmts = <<>>
    /\ last_op = "None"
    /\ expr = drawn
    /\ scanned = <<>>

\* a VM the body of an arm on a global is about to be applied to, a VM about
\* to fetch an Equal, or a VM about to fetch the first byte of a chunk
\* written by hand
InitArms ==
    \/ \E op \in GlobalArms, k \in {0, 1}, stk \in ArmStacks, tbl \in ArmTables :
           InitVM("arm", OperandChunk(k), FALSE, stk, tbl, <<"arm", op>>)
    \/ \E stk \in ArmStacks, tbl \in ArmTables, trace \in BOOLEAN :
           InitVM("running", EqualChunk, trace, stk, tbl, <<"turn", "Equal">>)
    \/ \E body \in CodeBodies, trace \in BOOLEAN :
           InitVM("running", HandWritten(body), trace, <<>>, NoGlobals,
                  <<"turn">>)

\* the VM the body of an arm has left: "returned" where the body ran to its
\* end, else the error or the panic it ended in
ArmReturned(vm) ==
    /\ ip' = vm.ip
    /\ stack' = vm.stack
    /\ globals' = vm.globals
    /\ stdout' = vm.stdout
    /\ phase' = IF vm.phase = "running" THEN "returned" ELSE vm.phase
    /\ UNCHANGED <<compiler, tracing, offset, stmts, expr, scanned>>

\* the body of the arm `op` of the match of VM::run, applied to vm
arm_body(op, vm, c) ==
    CASE op = "DefineGlobal" -> exec_DefineGlobal(vm, c)
      [] op = "GetGlobal" -> exec_GetGlobal(vm, c)
      [] op = "SetGlobal" -> exec_SetGlobal(vm, c)

\* the body of the arm of DefineGlobal, GetGlobal or SetGlobal applied to the
\* drawn VM: not a step of run(), which decodes no byte to these opcodes
ArmApplied ==
    /\ phase = "arm"
    /\ ArmReturned(arm_body(expr[2], [VMValue EXCEPT !.phase = "running"], chunk))
    /\ last_op' = expr[2]

NextArms == ArmApplied \/ RunTurn

SpecArms == InitArms /\ [][NextArms]_vars

(***************************************************************************)
(* Properties.                                                             *)
(***************************************************************************)
\* the phases in which compile() has returned Ok(chunk) to VM::interpret
ChunkReturned ==
    phase \in {"compiled", "disassembling", "running", "ok", "runtime_error", "hang"}

\* C1: once error_at has set had_error, compile returns failure instead of a
\* chunk, and no instruction of that chunk is ever executed by the VM.
C1_CompileErrorFails ==
    compiler.parser.had_error => (~ChunkReturned /\ last_op = "None")

\* C2: once add_constant has refused a constant (the 257th of the chunk), the
\* compile fails with the 'too many constants' diagnostic: it has not crashed,
\* it returns no chunk, and no instruction of the chunk is executed.
C2_TooManyConstantsFails ==
    compiler.too_many =>
        /\ ~compiler.panicked
        /\ compiler.parser.had_error
        /\ ~ChunkReturned
        /\ phase # "panic"
        /\ last_op = "None"

\* the lines on standard output that Print instructions wrote
Printed(out) == SelectSeq(out, LAMBDA e : e.kind = "print")

\* run() executes nothing from here on: it has returned, the process has
\* crashed, or Chunk::disassemble is in the loop it never leaves
RunOver == phase \in {"ok", "runtime_error", "decode_error", "panic", "hang"}

\* the global table that binds the one name
Bound(name, v) == [k \in {name} |-> v]

\* C4: SetGlobal on a defined name overwrites the entry with the value on top
\* of the stack and leaves that value on the stack: the run of
\* `var a = 1 ; print a = 2 ;` ends with a bound to 2 and with 2 printed.
C4_SetGlobalKeepsStack ==
    ( /\ source = Src(<<kw_var, id_a, t_eq, num_1, t_semi,
                        kw_print, id_a, t_eq, num_2, t_semi>>)
      /\ RunOver )
    => /\ globals = Bound(id_a, Number(FromInt(2)))
       /\ Printed(stdout) = <<PrintEntry(Number(FromInt(2)))>>

\* the body of the arm of op is about to be applied
ArmEntered(op) == phase = "arm" /\ expr = <<"arm", op>>

\* the name that the operand byte at ip indexes in the constant pool
OperandName == chunk.constants[chunk.code[ip + 1] + 1].s

\* C5: the arm of SetGlobal, on a name that is not in the global table, ends
\* the run with a runtime error and leaves the table as it was, whatever the
\* stack holds; nothing is executed after it.
C5_SetGlobalUndefined ==
    [][ /\ (ArmEntered("SetGlobal") /\ OperandName \notin DOMAIN globals)
            => /\ phase' = "runtime_error"
               /\ globals' = globals
        /\ (phase = "runtime_error" /\ last_op = "SetGlobal")
            => UNCHANGED vars ]_vars

\* SetGlobal has failed on b, with a alone in the table and 0 on the stack
C5_Witness ==
    /\ phase = "runtime_error"
    /\ last_op = "SetGlobal"
    /\ chunk.code = <<1>>
    /\ globals = Bound(id_a, Number(FromInt(1)))
    /\ stack = <<Number(FromInt(0))>>

\* C6: the arm of GetGlobal, on a name that is in the global table, pushes
\* its value, leaves the table unchanged and raises no error; on a name not in
\* the table it ends the run with a runtime error, pushes nothing, and
\* nothing is executed after it.
C6_GetGlobal ==
    [][ /\ ArmEntered("GetGlobal")
            => /\ globals' = globals
               /\ IF OperandName \in DOMAIN globals
                  THEN /\ phase' = "returned"
                       /\ stack' = Append(stack, globals[OperandName])
                  ELSE /\ phase' = "runtime_error"
                       /\ stack' = stack
        /\ (phase = "runtime_error" /\ last_op = "GetGlobal")
            => UNCHANGED vars ]_vars

\* GetGlobal has pushed the value "s" of a above the 0 the stack held
C6_Witness ==
    /\ phase = "returned"
    /\ last_op = "GetGlobal"
    /\ chunk.code = <<0>>
    /\ globals = Bound(id_a, from_string(<<"s">>))
    /\ stack = <<Number(FromInt(0)), from_string(<<"s">>)>>

\* C7: the arm of DefineGlobal binds the name of its operand to the value on top of the
\* stack and pops exactly that one value; a name already defined is
\* overwritten without an error; no other entry changes.
C7_DefineGlobal ==
    [][ (ArmEntered("DefineGlobal") /\ stack # <<>>)
            => /\ phase' = "returned"
               /\ stack' = SubSeq(stack, 1, Len(stack) - 1)
               /\ DOMAIN globals' = DOMAIN globals \cup {OperandName}
               /\ globals'[OperandName] = stack[Len(stack)]
               /\ \A k \in DOMAIN globals \ {OperandName} :
                      globals'[k] = globals[k] ]_vars

\* DefineGlobal has bound a to nil and popped it: 0 is left on the stack, and
\* b is bound as before
C7_Witness ==
    /\ phase = "returned"
    /\ last_op = "DefineGlobal"
    /\ chunk.code = <<0>>
    /\ DOMAIN globals = {id_a, id_b}
    /\ globals[id_a] = Nil
    /\ globals[id_b] = Number(FromInt(1))
    /\ stack = <<Number(FromInt(0))>>

Top == stack[Len(stack)]

\* the instruction at ip is one that fails on this stack: negation or
\* arithmetic on operands of the wrong type
RaisesRuntimeError ==
    \/ Decoded("Negate") /\ stack # <<>> /\ Top.tag # "Number"
    \/ /\ Decoded("Subtract") \/ Decoded("Multiply") \/ Decoded("Divide")
       /\ Len(stack) >= 2
       /\ ~(Top.tag = "Number" /\ stack[Len(stack) - 1].tag = "Number")
    \/ /\ Decoded("Add")
       /\ Len(stack) >= 2
       /\ ~(Top.tag = "Number" /\ stack[Len(stack) - 1].tag = "Number")
       /\ ~(Top.tag = "Obj" /\ stack[Len(stack) - 1].tag = "Obj")

\* C8: the instruction that raises a runtime error ends the run: the run has
\* failed after it, it prints no value and changes no global (an untraced
\* turn writes nothing at all), and afterwards no instruction is executed,
\* nothing is printed and no global changes.
C8_RuntimeErrorAborts ==
    [][ /\ RaisesRuntimeError
           => ( /\ phase' = "runtime_error"
                /\ Printed(stdout') = Printed(stdout)
                /\ ~tracing => stdout' = stdout
                /\ globals' = globals )
        /\ phase = "runtime_error" => UNCHANGED vars ]_vars

\* the chunk of Nil, Negate, Not, Return has failed negating nil: the Not and
\* the Return after it are left unexecuted
C8_Witness ==
    /\ phase = "runtime_error"
    /\ last_op = "Negate"
    /\ chunk.code = <<OP_NIL, OP_NEGATE, OP_NOT, OP_RETURN>>
    /\ ip = 2
    /\ stack = <<>>

\* the expression statement of an arithmetic program has been evaluated: the
\* next instruction is the statement's Pop
AtFinalPop == phase = "running" /\ ip < Len(chunk.code) /\ chunk.code[ip + 1] = OP_POP

\* C9: an arithmetic expression over numeric literals, + - * /, unary - and
\* parentheses compiles without a diagnostic and runs without a failure, and
\* the value the VM has computed when the expression is evaluated is the value
\* of the reference evaluator (standard precedence, left-associative, the
\* left operand of - and / being the one pushed first).
C9_ArithmeticMatchesReference ==
    /\ ~compiler.parser.had_error
    /\ phase \notin {"panic", "runtime_error", "hang"}
    /\ AtFinalPop => stack = <<Number(Eval(expr))>>

\* the constant pool of (-1 + 2) * 3 - -4
GoldenConstants ==
    <<Number(FromInt(1)), Number(FromInt(2)), Number(FromInt(3)), Number(FromInt(4))>>

\* C10 as stated: compiling (-1 + 2) * 3 - -4 gives load-const 0, negate,
\* load-const 1, add, load-const 2, multiply, load-const 3, negate, subtract,
\* return, the constant pool holding 1, 2, 3, 4.
C10_GoldenAsStated ==
    (phase = "compiled" /\ source = Golden)
    => /\ chunk.code = <<OP_CONSTANT, 0, OP_NEGATE, OP_CONSTANT, 1, OP_ADD,
                         OP_CONSTANT, 2, OP_MULTIPLY, OP_CONSTANT, 3, OP_NEGATE,
                         OP_SUBTRACT, OP_RETURN>>
       /\ chunk.constants = GoldenConstants

\* C10: compiling (-1 + 2) * 3 - -4 gives load-const 0, negate, load-const 1,
\* add, load-const 2, multiply, load-const 3, negate, subtract, then the Pop
\* of the expression statement, then return; the constant pool holds
\* 1, 2, 3, 4.
C10_GoldenWithPop ==
    (phase = "compiled" /\ source = Golden)
    => /\ chunk.code = <<OP_CONSTANT, 0, OP_NEGATE, OP_CONSTANT, 1, OP_ADD,
                         OP_CONSTANT, 2, OP_MULTIPLY, OP_CONSTANT, 3, OP_NEGATE,
                         OP_SUBTRACT, OP_POP, OP_RETURN>>
       /\ chunk.constants = GoldenConstants

\* compile() has returned the chunk of (-1 + 2) * 3 - -4
C10_Witness ==
    /\ phase = "compiled"
    /\ source = Golden
    /\ Len(chunk.code) = 15
    /\ Len(chunk.constants) = 4

\* C11: for number literals x and y the program `x < y ;` (and > <= >=)
\* runs without a crash, and the value the VM has computed when the statement
\* is evaluated is true exactly when the comparison holds of x and y.
C11_ComparisonsCompute ==
    expr[1] = "cmp" =>
        /\ phase # "panic"
        /\ AtFinalPop => stack = <<Bool(CompareHolds(expr))>>

\* C12: the Not instruction replaces the value on top of the stack by
\* Bool(true) when that value is Nil or Bool(false) and by Bool(false) when it
\* is anything else (the number 0 and the empty string included), and the run
\* goes on.
C12_NotNegatesTruthiness ==
    [][(Decoded("Not") /\ stack # <<>>)
       => /\ phase' = "running"
          /\ stack' = [stack EXCEPT ![Len(stack)] =
                           Bool(Top = Nil \/ Top = Bool(FALSE))]]_vars

\* the chunk of Constant 0, Not, Return: the Not has left false for the
\* number 0
C12_Witness ==
    /\ phase = "running"
    /\ last_op = "Not"
    /\ chunk.constants = <<Number(FromInt(0))>>
    /\ chunk.code = <<OP_CONSTANT, 0, OP_NOT, OP_RETURN>>
    /\ stack = <<Bool(FALSE)>>

\* the value under the top of the stack: the left operand
Under == stack[Len(stack) - 1]

\* the stack without its n topmost values
Below(n) == SubSeq(stack, 1, Len(stack) - n)

BothNumbers == Under.tag = "Number" /\ Top.tag = "Number"

BothStrings == Under.tag = "Obj" /\ Top.tag = "Obj"

\* the step has replaced the n topmost values by v and the run goes on
Replaced(n, v) == phase' = "running" /\ stack' = Append(Below(n), v)

\* the step has ended the run with a runtime error, its n operands popped and
\* no result pushed
TypeError(n) == phase' = "runtime_error" /\ stack' = Below(n)

\* C13: Add succeeds exactly on two Numbers (their sum) and on two Strings
\* (their concatenation, the left operand first); Subtract, Multiply and
\* Divide succeed exactly on two Numbers; Negate succeeds exactly on a Number.
\* On every other pairing of operand types the run ends with a runtime error
\* and no result is pushed.
C13_OperandTypes ==
    [][ /\ (Decoded("Add") /\ Len(stack) >= 2)
           => CASE BothNumbers -> Replaced(2, Number(f64_add(Under.n, Top.n)))
                [] BothStrings -> Replaced(2, from_string(Under.s \o Top.s))
                [] OTHER -> TypeError(2)
        /\ (Decoded("Subtract") /\ Len(stack) >= 2)
           => IF BothNumbers
              THEN Replaced(2, Number(f64_sub(Under.n, Top.n)))
              ELSE TypeError(2)
        /\ (Decoded("Multiply") /\ Len(stack) >= 2)
           => IF BothNumbers
              THEN Replaced(2, Number(f64_mul(Under.n, Top.n)))
              ELSE TypeError(2)
        /\ (Decoded("Divide") /\ Len(stack) >= 2)
           => IF BothNumbers
              THEN Replaced(2, Number(f64_div(Under.n, Top.n)))
              ELSE TypeError(2)
        /\ (Decoded("Negate") /\ stack # <<>>)
           => IF Top.tag = "Number"
              THEN Replaced(1, Number(f64_neg(Top.n)))
              ELSE TypeError(1) ]_vars

\* the chunk of Constant "s", Constant "t", Add, Return: the Add has left the
\* string st
C13_Witness ==
    /\ phase = "running"
    /\ last_op = "Add"
    /\ chunk.constants = <<from_string(<<"s">>), from_string(<<"t">>)>>
    /\ stack = <<from_string(<<"s", "t">>)>>

\* the scanner scan_token is called on
scanner == compiler.scanner

\* the result of the latest call of scan_token
LastScan == scanned[Len(scanned)]

EofReturned ==
    scanned # <<>> /\ LastScan.res = "ok" /\ LastScan.token.token_type = "Eof"

\* C17: once scan_token has returned the end-of-input token, a further call
\* returns the end-of-input token again, without an error, and leaves the
\* scanner's start, current and line as they were.
C17_EofIsIdempotent ==
    [][(EofReturned /\ scanned' # scanned)
       => /\ EofReturned'
          /\ scanner'.start = scanner.start
          /\ scanner'.current = scanner.current
          /\ scanner'.line = scanner.line]_vars

\* the scanner at the character the next token starts with
AtTokenStart == skip_whitespace(scanner)

\* C18: a call of scan_token that finds a character belonging to no token
\* returns a lexical error and does not crash: the scanner can be called
\* again.
C18_UnknownCharacterIsAnError ==
    [][(phase = "start" /\ peek(AtTokenStart) \in UnknownChars
        /\ scanned' # scanned)
       => (LastScan'.res = "err" /\ phase' = "start")]_vars

\* the offsets after `from` at which the text holds the character ch
Occurrences(text, from, ch) == { i \in (from + 1)..Len(text) : text[i] = ch }

\* the least number of a non-empty set of numbers
Least(S) == CHOOSE i \in S : \A j \in S : i <= j

\* the offset of the quote that opens the string literal scan_token is at
Opening == AtTokenStart.current

\* the 1-based positions of the quotes after the opening quote
ClosingQuotes == Occurrences(scanner.source, Opening + 1, "\"")

\* the line counter after the text up to position `to`, counted from the
\* opening quote
LineAt(to) ==
    AtTokenStart.line
    + Cardinality({ i \in Occurrences(scanner.source, Opening + 1, "\n") : i < to })

\* C19: a call of scan_token at a string literal with no closing quote before
\* the end of input returns the unterminated-string error with the line the
\* scanner has reached and the offset of the opening quote; at a literal with
\* a closing quote it returns one String token whose lexeme runs from the
\* opening to the closing quote, both included, and the line counter has
\* grown by one for every newline inside the literal.
C19_StringLiterals ==
    [][(phase = "start" /\ peek(AtTokenStart) = "\"" /\ scanned' # scanned)
       => IF ClosingQuotes = {}
          THEN /\ LastScan'.res = "err"
               /\ LastScan'.at = Opening
               /\ LastScan'.line = LineAt(Len(scanner.source) + 1)
               /\ scanner'.line = LineAt(Len(scanner.source) + 1)
          ELSE /\ LastScan'.res = "ok"
               /\ LastScan'.token.token_type = "String"
               /\ LastScan'.token.lexeme =
                      SubSeq(scanner.source, Opening + 1, Least(ClosingQuotes))
               /\ LastScan'.token.line = LineAt(Least(ClosingQuotes))
               /\ scanner'.line = LineAt(Least(ClosingQuotes))
               /\ scanner'.current = Least(ClosingQuotes)]_vars

\* the text  a "<newline>a"  has been scanned: the identifier on line 1, then
\* the string of both quotes and what is between them, on line 2
C19_Witness ==
    /\ scanner.source = <<"a", "\"", "\n", "\"">>
    /\ Len(scanned) = 2
    /\ LastScan.token = Token_new("String", <<"\"", "\n", "\"">>, 2)

\* the messages of the diagnostics written so far
Messages == { compiler.diagnostics[i].message : i \in DOMAIN compiler.diagnostics }

\* C14: when a statement has an `=` after an expression that is not a bare
\* variable reference (1 = 2, a + b = c, a * b = c, (a) = 1), the compiler
\* has recorded the diagnostic 'invalid assignment target' once it is done
\* with the statement.
C14_InvalidAssignmentTarget ==
    (source \in AssignTargetPrograms /\ stmts # <<>>)
        => "invalid assignment target" \in Messages

\* C15: when the compiler is done with a source of two erroneous statements,
\* the first ended by its semicolon, it has written exactly two diagnostics.
C15_TwoErrorsTwoDiagnostics ==
    (source \in TwoErrorPrograms /\ phase \notin {"start", "compiling"})
        => (phase = "compiled" /\ Len(compiler.diagnostics) = 2)

\* C16: compile() always gets on and ends: a step of it does not crash,
\* every call of declaration moves the scanner forward, and when it returns
\* the end of input has been consumed and Return is the last byte emitted.
C16_CompileProgresses ==
    [][ /\ (phase \in {"start", "compiling"} /\ compiler' # compiler)
           => phase' \in {"compiling", "compiled"}
        /\ (phase = "compiling" /\ stmts' # stmts)
           => scanner'.current > scanner.current
        /\ (phase = "compiling" /\ phase' = "compiled")
           => /\ compiler'.parser.previous.token_type = "Eof"
              /\ compiler'.chunk.code[Len(compiler'.chunk.code)] = OP_RETURN ]_vars

\* C20: when the scanner returns its error to the compiler's advance, at the
\* first token or a later one, the compiler does not crash: it writes a
\* diagnostic, has a current token again when advance returns, and the
\* compile ends with the error flagged.
C20_LexicalErrorIsDiagnosed ==
    source \in UnterminatedPrograms
        => /\ phase # "panic"
           /\ phase \in {"compiling", "compiled"}
                  => compiler.parser.current # NoToken
           /\ phase = "compiled"
                  => (compiler.parser.had_error /\ compiler.diagnostics # <<>>)

\* C21: disassembling the chunk of a syntactically valid program never
\* faults, and every call of disassemble_instruction returns an offset
\* greater than the one it was given and no greater than the code length.
C21_DisassemblyAdvances ==
    [][phase = "disassembling"
       => /\ phase' \in {"disassembling", "running"}
          /\ offset' > offset
          /\ offset' <= Len(chunk.code)]_vars

\* C27: the turn of run() that executes an Equal raises no error: on any two
\* operands it pops both and pushes a Bool, and the run goes on; the Bool is
\* false when the operands differ in tag, and tells whether the payloads are
\* the same when the tags match.  (With the trace on, the turn ends in the
\* disassembly of the trace, before the Equal is fetched.)
C27_EqualNeverFails ==
    [][ (Decoded("Equal") /\ ~tracing /\ Len(stack) >= 2)
            => /\ phase' = "running"
               /\ last_op' = "Equal"
               /\ globals' = globals
               /\ stack' = Append(SubSeq(stack, 1, Len(stack) - 2),
                                  Bool(/\ stack[Len(stack) - 1].tag
                                            = stack[Len(stack)].tag
                                       /\ stack[Len(stack) - 1]
                                            = stack[Len(stack)])) ]_vars

\* Equal has compared two operands and the Return after it has ended the run
\* with the one Bool on the stack
C27_Witness ==
    /\ phase = "ok"
    /\ last_op = "Return"
    /\ ~tracing
    /\ expr = <<"turn", "Equal">>
    /\ stack = <<Bool(FALSE)>>

\* C23: with tracing disabled, standard output holds nothing but the lines
\* of the Print instructions executed so far.
C23_OnlyPrintWrites ==
    ~tracing => \A i \in DOMAIN stdout : stdout[i].kind = "print"

\* C26: run() of a chunk compile() returned terminates: no step of it, the
\* disassembly it opens with included, crashes or enters a loop it never
\* leaves; whenever it is about to fetch, the instruction pointer is below
\* the code length; every turn of its loop moves the instruction pointer
\* forward, never beyond the code length; and a turn either goes on, or ends
\* the run by Return or by a runtime error.
C26_RunTerminates ==
    [][ /\ phase \in {"compiled", "disassembling"}
           => phase' \in {"compiled", "disassembling", "running"}
        /\ phase' = "running" => ip' < Len(chunk'.code)
        /\ phase = "running"
           => /\ ip' > ip
              /\ ip' <= Len(chunk.code)
              /\ phase' \in {"running", "ok", "runtime_error"}
              /\ phase' = "ok" => last_op' = "Return" ]_vars

\* C24: after every call of Chunk::write or Chunk::add_constant the code
\* buffer and the line table have the same length and the constant pool
\* holds at most 256 values, and a call of add_constant that returned its
\* error has left code, lines and constants as they were.
C24_ChunkInvariant ==
    [][ /\ Len(chunk'.code) = Len(chunk'.lines)
        /\ Len(chunk'.constants) <= MAX_CONSTANTS
        /\ last_op' = "add_constant Err" => chunk' = chunk ]_vars

\* add_constant has failed on a chunk of two bytes and a full pool
C24_Witness ==
    /\ last_op = "add_constant Err"
    /\ Len(chunk.code) = MaxWrites
    /\ Len(chunk.lines) = MaxWrites
    /\ Len(chunk.constants) = MAX_CONSTANTS

\* the byte values that are the encoding of no opcode
NoOpcodeBytes == (0..255) \ { OpCode_into_u8(o) : o \in OpCodes }

\* C25: the decode function fails on every byte value that is the encoding
\* of no opcode; the turn of run() that fetches such a byte ends the run
\* with the decode failure, with nothing pushed, popped, bound or printed,
\* and nothing is executed after it.
C25_UnknownOpcodeFails ==
    [][ /\ \A b \in NoOpcodeBytes : OpCode_try_from(b) = "UnknownOpCode"
        /\ ( /\ phase = "running"
             /\ ip < Len(chunk.code)
             /\ chunk.code[ip + 1] \in NoOpcodeBytes )
            => /\ phase' = "decode_error"
               /\ ip' = ip + 1
               /\ stack' = stack
               /\ globals' = globals
               /\ Printed(stdout') = Printed(stdout)
        /\ phase = "decode_error" => UNCHANGED vars ]_vars

\* the run has ended on the byte 19 it fetched after a Nil; the Nil it
\* pushed is on the stack, and the Nil and the Return after the byte are
\* not executed
C25_Witness ==
    /\ phase = "decode_error"
    /\ last_op = "UnknownOpCode"
    /\ chunk.code = <<OP_NIL, 19, OP_NIL, OP_RETURN>>
    /\ ip = 2
    /\ stack = <<Nil>>

\* what a run computes: where it is, its stack, its globals, how it has
\* ended, and the values it has printed
Visible(vm) ==
    [ip |-> vm.ip, stack |-> vm.stack, globals |-> vm.globals,
     phase |-> vm.phase, printed |-> Printed(vm.stdout)]

\* the turn of the loop of run() that a VM without the trace takes from the
\* present state
UntracedTurn == execute(OpAtIp, fetch(VMValue, chunk, FALSE), chunk)

\* C22: from every state of a run, with the trace on or off, the turn taken
\* executes the same instruction and leaves the same instruction pointer,
\* stack, globals, outcome and printed values as the turn of a run without
\* the trace; so a traced and an untraced run of one chunk execute the same
\* instructions and end alike.
C22_TraceIsSideChannel ==
    [][phase = "running"
       => /\ last_op' = OpAtIp
          /\ Visible(VMValue') = Visible(UntracedTurn)]_vars

\* a traced run of Constant, Constant, Add, Return has ended: its output
\* holds the stack line the trace wrote before the Add, with both operands
C22_Witness ==
    /\ tracing
    /\ phase = "ok"
    /\ last_op = "Return"
    /\ \E i \in DOMAIN stdout : stdout[i].kind = "stack" /\ Len(stdout[i].items) = 2

\* the 1-based position of the character the next token starts with
TokenStart == AtTokenStart.current + 1

\* the 1-based position after the digits that start at position `from`
DigitsEnd(text, from) ==
    Least({ p \in from..(Len(text) + 1) : p > Len(text) \/ text[p] \notin Digits })

\* a dot at position p of the text with a digit after it
FractionAt(text, p) ==
    /\ p + 1 <= Len(text)
    /\ text[p] = "."
    /\ text[p + 1] \in Digits

\* the 1-based position after the numeric literal that starts at `from`
NumberEnd(text, from) ==
    IF FractionAt(text, DigitsEnd(text, from))
    THEN DigitsEnd(text, DigitsEnd(text, from) + 1)
    ELSE DigitsEnd(text, from)

\* C28: a call of scan_token at a digit returns one Number token that covers
\* the longest run of digits, and a dot with the digits after it only when a
\* digit follows the dot; a call at a dot returns the Dot token, so a dot
\* not followed by a digit is the token after the number.
C28_NumberLiterals ==
    [][(phase = "start" /\ scanned' # scanned)
       => /\ peek(AtTokenStart) \in Digits
             => /\ LastScan'.res = "ok"
                /\ LastScan'.token.token_type = "Number"
                /\ LastScan'.token.lexeme =
                       SubSeq(scanner.source, TokenStart,
                              NumberEnd(scanner.source, TokenStart) - 1)
                /\ scanner'.current = NumberEnd(scanner.source, TokenStart) - 1
          /\ peek(AtTokenStart) = "."
             => /\ LastScan'.token.token_type = "Dot"
                /\ LastScan'.token.lexeme = <<".">>
                /\ scanner'.current = TokenStart]_vars

\* the text 12.x has been scanned: the number 12, then the dot
C28_Witness ==
    /\ scanner.source = <<"1", "2", ".", "x">>
    /\ Len(scanned) = 2
    /\ scanned[1].token = Token_new("Number", <<"1", "2">>, 1)
    /\ scanned[2].token = Token_new("Dot", <<".">>, 1)

\* the token of the operator character c alone, and with `=` after it
OneCharToken(c) ==
    CASE c = "!" -> "Bang"
      [] c = "=" -> "Equal"
      [] c = "<" -> "Less"
      [] c = ">" -> "Greater"

TwoCharToken(c) ==
    CASE c = "!" -> "BangEqual"
      [] c = "=" -> "EqualEqual"
      [] c = "<" -> "LessEqual"
      [] c = ">" -> "GreaterEqual"

\* the character after the one the next token starts with
AfterTokenStart == peek_next(AtTokenStart)

\* the token types returned so far
ScannedTypes(results) == [i \in DOMAIN results |-> results[i].token.token_type]

OperatorGoldenTypes ==
    <<"Greater", "GreaterEqual", "EqualEqual", "Bang", "BangEqual", "Equal",
      "Less", "LessEqual">>

\* C29: a call of scan_token at `!`, `=`, `<` or `>` returns the
\* two-character token and consumes two characters exactly when the next
\* character is `=`, and otherwise returns the one-character token and
\* consumes one character; the first eight tokens of >>===!!==<<= are
\* Greater, GreaterEqual, EqualEqual, Bang, BangEqual, Equal, Less, LessEqual.
C29_TwoCharacterOperators ==
    [][(phase = "start" /\ scanned' # scanned)
       => /\ peek(AtTokenStart) \in OperatorAlphabet
             => /\ LastScan'.res = "ok"
                /\ IF AfterTokenStart = "="
                   THEN /\ LastScan'.token.token_type =
                               TwoCharToken(peek(AtTokenStart))
                        /\ LastScan'.token.lexeme = <<peek(AtTokenStart), "=">>
                        /\ scanner'.current = TokenStart + 1
                   ELSE /\ LastScan'.token.token_type =
                               OneCharToken(peek(AtTokenStart))
                        /\ LastScan'.token.lexeme = <<peek(AtTokenStart)>>
                        /\ scanner'.current = TokenStart
          /\ (scanner.source = OperatorGolden /\ Len(scanned') = 8)
             => ScannedTypes(scanned') = OperatorGoldenTypes]_vars

\* the operators of the text of test_scanner have been scanned
C29_Witness ==
    /\ scanner.source = OperatorGolden
    /\ ScannedTypes(scanned) = OperatorGoldenTypes

\* the operand words that compile to a constant-pool entry
PoolWords == {num_1, str_s, str_t}

\* the constants a tree adds to the pool: one per number or string literal
RECURSIVE Literals(_)
Literals(t) ==
    CASE t[1] = "num" -> 1
      [] t[1] = "neg" -> Literals(t[2])
      [] t[1] = "bin" -> Literals(t[3]) + Literals(t[4])
      [] t[1] = "cmp" -> 2
      [] t[1] = "eq" -> Cardinality({ i \in {2, 3} : t[i] \in PoolWords })

\* the opcode of an arithmetic operator
ArithOp(op) ==
    CASE op = "+" -> OP_ADD
      [] op = "-" -> OP_SUBTRACT
      [] op = "*" -> OP_MULTIPLY
      [] op = "/" -> OP_DIVIDE

\* the opcodes of a comparison: >= and <= are the complementary comparison
\* followed by Not
CompareCode(op) ==
    CASE op = t_less -> <<OP_LESS>>
      [] op = t_greater -> <<OP_GREATER>>
      [] op = t_less_equal -> <<OP_GREATER, OP_NOT>>
      [] op = t_greater_equal -> <<OP_LESS, OP_NOT>>

\* the code of an operand word whose constant, if any, has pool index k
WordCode(w, k) ==
    CASE w = kw_nil -> <<OP_NIL>>
      [] w = kw_true -> <<OP_TRUE>>
      [] OTHER -> <<OP_CONSTANT, k>>

\* the postfix code of a tree whose first constant has pool index k
RECURSIVE Postfix(_, _)
Postfix(t, k) ==
    CASE t[1] = "num" -> <<OP_CONSTANT, k>>
      [] t[1] = "neg" -> Postfix(t[2], k) \o <<OP_NEGATE>>
      [] t[1] = "bin" ->
           Postfix(t[3], k) \o Postfix(t[4], k + Literals(t[3]))
           \o <<ArithOp(t[2])>>
      [] t[1] = "cmp" ->
           <<OP_CONSTANT, k, OP_CONSTANT, k + 1>> \o CompareCode(t[2])
      [] t[1] = "eq" ->
           WordCode(t[2], k)
           \o WordCode(t[3], k + (IF t[2] \in PoolWords THEN 1 ELSE 0))
           \o <<OP_EQUAL>>

\* C30: the chunk compile returns for a single expression holds the
\* expression's operands and operators in postfix order (a literal as
\* Constant with its pool index, a unary operator after its operand, a binary
\* operator after both operands, >= and <= as the complementary comparison
\* followed by Not), then one Pop, then Return as its last byte.
C30_PostfixCode ==
    (expr # NoTree /\ ChunkReturned)
        => chunk.code = Postfix(expr, 0) \o <<OP_POP, OP_RETURN>>

\* C36: the logical-not of an owned value, the logical-not of a reference and
\* is_falsey agree for every value: each yields Bool(true) exactly for Nil and
\* Bool(false), and Bool(false) for every other value
C36_NotsAgree ==
    (phase = "value" /\ Len(stack) > 1)
        => stack[Len(stack)] = Bool(Under = Nil \/ Under = Bool(FALSE))

\* the diagnostic error_at writes of a token
DiagnosticOf(token, message) ==
    [line |-> token.line, at_end |-> token.token_type = "Eof",
     lexeme |-> token.lexeme, message |-> message]

\* error_at wrote one diagnostic and set panic-mode and had-error, nothing else
Reported ==
    \E token \in ReportedTokens, message \in ErrorMessages :
        compiler' = [compiler EXCEPT
                        !.parser.panic_mode = TRUE,
                        !.parser.had_error = TRUE,
                        !.diagnostics = Append(@, DiagnosticOf(token, message))]

\* C31: while panic-mode is set a call of error_at emits no diagnostic and
\* changes no compiler state; a call while panic-mode is clear emits exactly
\* one diagnostic and sets panic-mode and had-error; panic-mode is clear
\* whenever compile() is about to call declaration; had-error, once set,
\* stays set
C31_PanicMode ==
    [][/\ (last_op' = "error_at" /\ compiler.parser.panic_mode)
            => compiler' = compiler
       /\ (last_op' = "error_at" /\ ~compiler.parser.panic_mode) => Reported
       /\ phase' = "compiling" => ~compiler'.parser.panic_mode
       /\ compiler.parser.had_error => compiler'.parser.had_error]_vars

\* error_at was called last, in panic-mode, on tokens other than the one the
\* diagnostic is about
C31_Witness ==
    /\ last_op = "error_at"
    /\ compiler.parser.panic_mode
    /\ Len(compiler.diagnostics) = 1
    /\ \A token \in ReportedTokens :
           /\ token.lexeme # compiler.diagnostics[1].lexeme
           /\ token.token_type # "Eof"

\* compile() is about to call declaration on a `var`
AtVar == phase = "compiling" /\ compiler.parser.current.token_type = "Var"

\* the token after the current one, and the token after that
Following == scan_token(scanner)

SecondFollowing == scan_token(Following.sc)

\* an identifier follows
NameFollows == Following.res = "ok" /\ Following.token.token_type = "Identifier"

\* the diagnostics written by the step
StepDiagnostics ==
    SubSeq(compiler'.diagnostics, Len(compiler.diagnostics) + 1,
           Len(compiler'.diagnostics))

\* the bytes emitted by the step
StepCode == SubSeq(chunk'.code, Len(chunk.code) + 1, Len(compiler'.chunk.code))

\* C32: a `var` that no identifier follows is reported as one diagnostic and
\* the compiler goes on to the following declaration with panic-mode clear,
\* without crashing; `var name ;` emits Nil, then DefineGlobal with the index
\* of the constant that holds the name
C32_VarDeclaration ==
    [][/\ (AtVar /\ ~NameFollows)
            => /\ phase' = "compiling"
               /\ ~compiler'.parser.panic_mode
               /\ Len(StepDiagnostics) = 1
               /\ StepDiagnostics[1].message = "expected variable name"
       /\ (AtVar /\ NameFollows /\ SecondFollowing.token.token_type = "Semicolon")
            => /\ Len(StepCode) = 3
               /\ StepCode[1] = OP_NIL
               /\ StepCode[2] = OP_DEFINE_GLOBAL
               /\ StepCode[3] + 1 \in DOMAIN compiler'.chunk.constants
               /\ compiler'.chunk.constants[StepCode[3] + 1]
                      = from_string(Following.token.lexeme)]_vars

\* C33: no two opcodes convert into the same byte, and the byte an opcode
\* converts into decodes to that opcode
C33_OpCodeRoundTrip ==
    /\ (phase = "byte" /\ expr[1] = "op")
           => \A o \in OpCodes \ {expr[2]} : OpCode_into_u8(o) # ip
    /\ (phase = "decoded" /\ expr[1] = "op") => last_op = expr[2]

\* what the call of add_constant made in this state returns
AddConstantResult == Chunk_add_constant(chunk, AddedValue, compiler.overflow_checks)

\* the step is a call of add_constant
AddConstantStep ==
    last_op' \in {"add_constant Ok", "add_constant Err", "add_constant panic"}

\* C34: a call of add_constant on a pool of n < 256 constants succeeds, stores
\* the value at index n and returns n, the 256th call (n = 255) included;
\* read_constant of the returned index yields the value added
C34_AddConstantIndex ==
    [][(AddConstantStep /\ Len(chunk.constants) < MAX_CONSTANTS)
           => /\ last_op' = "add_constant Ok"
              /\ phase' = "start"
              /\ chunk'.constants = Append(chunk.constants, AddedValue)
              /\ AddConstantResult.res = "ok"
              /\ AddConstantResult.index = Len(chunk.constants)
              /\ Chunk_read_constant(chunk', AddConstantResult.index) = AddedValue]_vars

====
